---- MODULE Spec2Model ----
(***************************************************************************)
(* Use/def graph of the shader recompiler IR (Shader::IR::Inst, Value,     *)
(* UseIterator).  Every operation of Inst is a function from a graph       *)
(* record to a graph record, translated statement by statement, so that    *)
(* nested calls (ReplaceUsesWith -> SetArg -> Use/UndoUse) are composed as *)
(* the code composes them.                                                  *)
(***************************************************************************)
EXTENDS Integers, Sequences, FiniteSets, TLC

\* ---------------------------------------------------------------- bounds
NumInsts == 3       \* instructions in the graph
MaxCalls == 3       \* public calls made on the graph in one behaviour
MaxPhiArgs == 2     \* operands a phi may grow to
NumBlocks == 2      \* predecessor blocks a phi operand may name
ImmA == 7           \* the u32 immediate handed to the operations

\* ------------------------------------------------------- program constants
ArgSlots == 6       \* std::array<Value, 6> args
I32Max == 2147483647
OperandLimit == 31  \* DEBUG_ASSERT(operand < 31): masks use bits 0..30

VARIABLES op, args, phi_args, users, num_uses, status, debug, last, calls, hull,
          pipeline

vars == <<op, args, phi_args, users, num_uses, status, debug, last, calls, hull,
          pipeline>>

Insts == 1..NumInsts
Blocks == 1..NumBlocks
Opcodes == {"Phi", "IAdd32", "Identity", "Void"}

\* ----------------------------------------------------------------- Value
\* A Value is its discriminant and its payload (the union of part_005:629).
Empty == [type |-> "Void", payload |-> 0]
Imm(n) == [type |-> "U32", payload |-> n]
Ref(k) == [type |-> "Opaque", payload |-> k]

InputValues == {Empty, Imm(ImmA)} \cup {Ref(k) : k \in Insts}

EmptyArgs == [s \in 1..ArgSlots |-> Empty]

\* IR::NumArgsOf for the opcodes of the model (the opcode table itself is not
\* among the sources; IAdd32 is matched with two arguments, Identity is given
\* its one argument by ReplaceUsesWith, Void has none).
NumArgsOf(o) == CASE o \in {"IAdd32", "IMul32", "ShiftLeftLogical32", "GetAttributeU32",
                             "ReadConstBuffer", "CompositeConstructU32x2",
                             "WriteSharedU32", "WriteSharedU64", "SetPatch",
                             "GetAttribute"} -> 2
                  [] o \in {"Identity", "GetUserData", "BitCastF32U32", "BitCastU32F32",
                             "LoadSharedU32"} -> 1
                  [] o \in {"BitFieldUExtract", "BitFieldSExtract", "SetAttribute",
                             "CompositeConstructU32x3", "StoreBufferU32",
                             "StoreBufferU32x2", "StoreBufferU32x3",
                             "StoreBufferU32x4"} -> 3
                  [] o = "CompositeConstructU32x4" -> 4
                  [] OTHER -> 0

\* ------------------------------------------------------------ u32 bit ops
HasBit(m, i) == (m \div (2 ^ i)) % 2 = 1
BitOr(m, i) == IF HasBit(m, i) THEN m ELSE m + 2 ^ i
BitClear(m, i) == IF HasBit(m, i) THEN m - 2 ^ i ELSE m

RECURSIVE CountrZeroFrom(_, _)
CountrZeroFrom(m, i) == IF i >= OperandLimit THEN 32
                        ELSE IF HasBit(m, i) THEN i
                        ELSE CountrZeroFrom(m, i + 1)
CountrZero(m) == CountrZeroFrom(m, 0)

\* u32 num_uses, kept as the int that UseCount() returns for the same 32 bits
\* (0xFFFFFFFF is -1): ++ and -- wrap as the unsigned counter does.
U32Inc(n) == IF n = -1 THEN 0 ELSE IF n = I32Max THEN (-I32Max) - 1 ELSE n + 1
U32Dec(n) == IF n = 0 THEN -1 ELSE IF n = (-I32Max) - 1 THEN I32Max ELSE n - 1

\* ------------------------------------------------------------ graph record
Graph == [op |-> op, args |-> args, phi_args |-> phi_args, users |-> users,
          num_uses |-> num_uses, status |-> "ok", exc |-> "none", ubc |-> "crash"]

Running(S) == S.status = "ok" /\ S.exc = "none"
Fail(S, st) == [S EXCEPT !.status = st]
Throw(S) == [S EXCEPT !.exc = "InvalidArgument"]

NumArgs(S, I) == IF S.op[I] = "Phi" THEN Len(S.phi_args[I]) ELSE NumArgsOf(S.op[I])

Arg(S, I, index) == IF S.op[I] = "Phi" THEN S.phi_args[I][index + 1].value
                    ELSE S.args[I][index + 1]

IsIdentity(S, v) == v.type = "Opaque" /\ S.op[v.payload] = "Identity"

\* Mutant of IsImmediateLoop: looks at the discriminant only, not through
\* Identity.
IsImmediateLoop_NoChase(S, cur, fuel) ==
    IF cur.type # "Opaque" THEN "imm" ELSE "inst"

\* Value::IsImmediate: the while loop.  "loop" when the Identity chain never
\* ends (the loop of the code then never returns).
RECURSIVE IsImmediateLoop(_, _, _)
IsImmediateLoop(S, cur, fuel) ==
    IF cur.type = "Opaque" /\ S.op[cur.payload] = "Identity"
    THEN IF fuel = 0 THEN "loop"
         ELSE IsImmediateLoop(S, Arg(S, cur.payload, 0), fuel - 1)
    ELSE IF cur.type # "Opaque" THEN "imm" ELSE "inst"

ChaseFuel == NumInsts

Diverges(S, v) == IsImmediateLoop(S, v, ChaseFuel) = "loop"
IsImmediate(S, v) == IsImmediateLoop(S, v, ChaseFuel) = "imm"

\* Value::Resolve, InstRecursive, TryInstRecursive: the recursions.  A chain
\* that never ends recurses without bound; NoValue / 0 stands for "no result".
NoValue == [type |-> "None", payload |-> 0]

RECURSIVE ResolveRec(_, _, _)
ResolveRec(S, v, fuel) ==
    IF IsIdentity(S, v)
    THEN IF fuel = 0 THEN NoValue
         ELSE ResolveRec(S, Arg(S, v.payload, 0), fuel - 1)
    ELSE v
Resolve(S, v) == ResolveRec(S, v, ChaseFuel)

\* nullptr is 0; -1 is "no result" (unbounded recursion, or the DEBUG_ASSERT
\* on a non-opaque value in a debug build).
RECURSIVE TryInstRecursiveRec(_, _, _)
TryInstRecursiveRec(S, v, fuel) ==
    IF IsIdentity(S, v)
    THEN IF fuel = 0 THEN -1
         ELSE TryInstRecursiveRec(S, Arg(S, v.payload, 0), fuel - 1)
    ELSE IF v.type = "Opaque" THEN v.payload ELSE 0
TryInstRecursive(S, v) == TryInstRecursiveRec(S, v, ChaseFuel)

\* InstRecursive asserts (debug builds) that every value it visits is opaque;
\* a release build returns the inst member of the union, which for a
\* non-opaque value is not an instruction: -2.
RECURSIVE InstRecursiveRec(_, _, _)
InstRecursiveRec(S, v, fuel) ==
    IF v.type # "Opaque" THEN (IF debug THEN -1 ELSE -2)
    ELSE IF IsIdentity(S, v)
    THEN IF fuel = 0 THEN -1
         ELSE InstRecursiveRec(S, Arg(S, v.payload, 0), fuel - 1)
    ELSE v.payload
InstRecursive(S, v) == InstRecursiveRec(S, v, ChaseFuel)

\* -------------------------------------------------------------- UserList
\* std::find_if over the list: position of the first node of `user`, 0 = end().
FindUser(list, user) ==
    IF \E k \in 1..Len(list) : list[k].user = user
    THEN CHOOSE k \in 1..Len(list) :
            list[k].user = user /\ \A j \in 1..(k - 1) : list[j].user # user
    ELSE 0

EraseAt(list, k) == SubSeq(list, 1, k - 1) \o SubSeq(list, k + 1, Len(list))

AddUse(S, used, user, operand) ==
    LET list == S.users[used]
        it == FindUser(list, user)
        operand_pos == 2 ^ operand
    IN  IF debug /\ ~(operand < OperandLimit) THEN Fail(S, "abort")
        ELSE IF it = 0
        THEN [S EXCEPT !.users[used] =
                            <<[user |-> user, operand_mask |-> operand_pos]>> \o list,
                       !.num_uses[used] = U32Inc(@)]
        ELSE IF debug /\ HasBit(list[it].operand_mask, operand) THEN Fail(S, "abort")
        ELSE [S EXCEPT !.users[used][it].operand_mask = BitOr(@, operand),
                       !.num_uses[used] = U32Inc(@)]

\* Mutant of RemoveUse: counts the use down and leaves its bit in the mask.
RemoveUse_KeepsBit(S, used, user, operand) ==
    IF FindUser(S.users[used], user) = 0 THEN Fail(S, "abort")
    ELSE [S EXCEPT !.num_uses[used] = U32Dec(@)]

\* RemoveUse.  With no node for `user` a debug build stops at the DEBUG_ASSERT;
\* a release build dereferences end(): the outcomes kept are a crash, or the
\* counter decremented with the list untouched (S.ubc picks one), and the
\* graph is not followed further ("ub").
RemoveUse(S, used, user, operand) ==
    LET list == S.users[used]
        it == FindUser(list, user)
    IN  IF it = 0
        THEN IF debug THEN Fail(S, "abort")
             ELSE IF S.ubc = "crash" THEN Fail(S, "ub")
             ELSE [Fail(S, "ub") EXCEPT !.num_uses[used] = U32Dec(@)]
        ELSE IF debug /\ ~HasBit(list[it].operand_mask, operand) THEN Fail(S, "abort")
        ELSE LET mask == BitClear(list[it].operand_mask, operand)
             IN  [S EXCEPT !.users[used] =
                               IF mask = 0 THEN EraseAt(list, it)
                               ELSE [list EXCEPT ![it].operand_mask = mask],
                           !.num_uses[used] = U32Dec(@)]

Use(S, this, used, operand) == AddUse(S, used, this, operand)
UndoUse(S, this, used, operand) == RemoveUse(S, used, this, operand)

\* ------------------------------------------------------------- UseIterator
\* An iterator is (user_it, bitmask_pos); user_it = Len(list) + 1 is end().
IterBegin(list) ==
    IF Len(list) # 0
    THEN [user_it |-> 1, bitmask_pos |-> CountrZero(list[1].operand_mask)]
    ELSE [user_it |-> 1, bitmask_pos |-> 0]

IterEnd(list) == [user_it |-> Len(list) + 1, bitmask_pos |-> 0]

IterIncrement(list, it) ==
    LET mask == 2 ^ (it.bitmask_pos + 1)
        use_mask == list[it.user_it].operand_mask
                    - (list[it.user_it].operand_mask % mask)
    IN  IF use_mask = 0
        THEN IF it.user_it + 1 = Len(list) + 1
             THEN [user_it |-> it.user_it + 1, bitmask_pos |-> 0]
             ELSE [user_it |-> it.user_it + 1,
                   bitmask_pos |-> CountrZero(list[it.user_it + 1].operand_mask)]
        ELSE [user_it |-> it.user_it, bitmask_pos |-> CountrZero(use_mask)]

IterDeref(list, it) == [user |-> list[it.user_it].user, operand |-> it.bitmask_pos]

\* The range [UseBegin, UseEnd) walked by a range-for.
RECURSIVE IterRange(_, _)
IterRange(list, it) ==
    IF it = IterEnd(list) THEN <<>>
    ELSE <<IterDeref(list, it)>> \o IterRange(list, IterIncrement(list, it))

Uses(list) == IterRange(list, IterBegin(list))

\* ------------------------------------------------------------ Inst methods
StoreArg(S, I, index, value) ==
    IF S.op[I] = "Phi"
    THEN [S EXCEPT !.phi_args[I][index + 1].value = value]
    ELSE [S EXCEPT !.args[I][index + 1] = value]

\* SetArg after its bounds check.
SetArgChecked(S, I, index, value) ==
    LET arg == Arg(S, I, index)
        S1 == IF Diverges(S, arg) THEN Fail(S, "hang")
              ELSE IF ~IsImmediate(S, arg) THEN UndoUse(S, I, arg.payload, index)
              ELSE S
        S2 == IF ~Running(S1) THEN S1
              ELSE IF Diverges(S1, value) THEN Fail(S1, "hang")
              ELSE IF ~IsImmediate(S1, value) THEN Use(S1, I, value.payload, index)
              ELSE S1
    IN  IF ~Running(S2) THEN S2 ELSE StoreArg(S2, I, index, value)

\* Mutant of SetArg: checks the index against the size of the array, not
\* against the arity of the opcode.
SetArg_ArraySizeBound(S, I, index, value) ==
    IF ~Running(S) THEN S
    ELSE IF index >= (IF S.op[I] = "Phi" THEN Len(S.phi_args[I]) ELSE ArgSlots)
    THEN Throw(S)
    ELSE SetArgChecked(S, I, index, value)

SetArg(S, I, index, value) ==
    IF ~Running(S) THEN S
    ELSE IF index >= NumArgs(S, I) THEN Throw(S)
    ELSE SetArgChecked(S, I, index, value)

\* PhiBlock: 0 is "no block" (UNREACHABLE_MSG on a non-phi, the throw on a bad
\* index).
PhiBlock(S, I, index) ==
    IF S.op[I] # "Phi" THEN 0
    ELSE IF index >= Len(S.phi_args[I]) THEN 0
    ELSE S.phi_args[I][index + 1].block

\* Mutant of AddPhiOperand: appends the operand and registers no use.
AddPhiOperand_NoUse(S, I, predecessor, value) ==
    IF ~Running(S) THEN S
    ELSE IF S.op[I] # "Phi" THEN Fail(S, "ub")
    ELSE [S EXCEPT !.phi_args[I] =
                       Append(@, [block |-> predecessor, value |-> value])]

\* AddPhiOperand has no check of its own that `this` is a phi: on a non-phi it
\* reads the phi_args member of the union while args is the live member.  The
\* outcomes kept are a crash, or slot 0 of args overwritten by the value
\* (S.ubc picks one); the graph is not followed further ("ub").
AddPhiOperand(S, I, predecessor, value) ==
    IF ~Running(S) THEN S
    ELSE IF S.op[I] # "Phi"
    THEN IF S.ubc = "crash" THEN Fail(S, "ub")
         ELSE [Fail(S, "ub") EXCEPT !.args[I][1] = value]
    ELSE LET S1 == IF Diverges(S, value) THEN Fail(S, "hang")
                   ELSE IF ~IsImmediate(S, value)
                   THEN Use(S, I, value.payload, Len(S.phi_args[I]))
                   ELSE S
         IN  IF ~Running(S1) THEN S1
             ELSE [S1 EXCEPT !.phi_args[I] =
                                 Append(@, [block |-> predecessor, value |-> value])]

\* The loop of ClearArgs over positions i .. n-1.
RECURSIVE ClearArgsLoop(_, _, _, _)
ClearArgsLoop(S, I, i, n) ==
    IF ~Running(S) \/ i >= n THEN S
    ELSE LET value == Arg(S, I, i)
         IN  IF Diverges(S, value) THEN Fail(S, "hang")
             ELSE IF ~IsImmediate(S, value)
             THEN ClearArgsLoop(UndoUse(S, I, value.payload, i), I, i + 1, n)
             ELSE ClearArgsLoop(S, I, i + 1, n)

ClearArgs(S, I) ==
    IF ~Running(S) THEN S
    ELSE IF S.op[I] = "Phi"
    THEN LET S1 == ClearArgsLoop(S, I, 0, Len(S.phi_args[I]))
         IN  IF ~Running(S1) THEN S1 ELSE [S1 EXCEPT !.phi_args[I] = <<>>]
    ELSE LET S1 == ClearArgsLoop(S, I, 0, ArgSlots)
         IN  IF ~Running(S1) THEN S1 ELSE [S1 EXCEPT !.args[I] = EmptyArgs]

\* Mutant of ReplaceOpcode: no check against a transition into Phi.
ReplaceOpcode_IntoPhi(S, I, opcode) ==
    IF ~Running(S) THEN S
    ELSE IF S.op[I] = "Phi" /\ opcode # "Phi"
    THEN [S EXCEPT !.phi_args[I] = <<>>, !.args[I] = EmptyArgs, !.op[I] = opcode]
    ELSE [S EXCEPT !.op[I] = opcode]

ReplaceOpcode(S, I, opcode) ==
    IF ~Running(S) THEN S
    ELSE IF opcode = "Phi" THEN Fail(S, "abort")
    ELSE IF S.op[I] = "Phi"
    THEN [S EXCEPT !.phi_args[I] = <<>>, !.args[I] = EmptyArgs, !.op[I] = opcode]
    ELSE [S EXCEPT !.op[I] = opcode]

Invalidate(S, I) ==
    LET S1 == ClearArgs(S, I)
    IN  IF ~Running(S1) THEN S1
        ELSE IF S1.users[I] # <<>> THEN Fail(S1, "abort")
        ELSE ReplaceOpcode(S1, I, "Void")

\* DEBUG_ASSERT(use.user->Arg(use.operand).Inst() == this), debug builds only.
UseAssertHolds(S, this, use) ==
    /\ use.operand < (IF S.op[use.user] = "Phi" THEN Len(S.phi_args[use.user])
                      ELSE ArgSlots)
    /\ Arg(S, use.user, use.operand) = Ref(this)

\* The range-for of ReplaceUsesWith over the copied user list.
RECURSIVE ReplaceLoop(_, _, _, _, _)
ReplaceLoop(S, this, temp_uses, k, replacement) ==
    IF ~Running(S) \/ k > Len(temp_uses) THEN S
    ELSE LET use == temp_uses[k]
         IN  IF debug /\ ~UseAssertHolds(S, this, use) THEN Fail(S, "abort")
             ELSE ReplaceLoop(SetArg(S, use.user, use.operand, replacement),
                              this, temp_uses, k + 1, replacement)

ReplaceUsesWith(S, this, replacement, preserve) ==
    IF ~Running(S) THEN S
    ELSE LET temp_users == S.users[this]
             S1 == ReplaceLoop(S, this, Uses(temp_users), 1, replacement)
             S2 == Invalidate(S1, this)
         IN  IF preserve
             THEN SetArg(ReplaceOpcode(S2, this, "Identity"), this, 0, replacement)
             ELSE S2

\* ------------------------------------------------------------------ state
\* Opcode each instruction is constructed with (Inst::Inst(op, flags)): one
\* phi, the rest two-argument instructions.  Identity and Void arise from
\* ReplaceUsesWith, Invalidate and ReplaceOpcode.
InitOp(I) == IF I = 1 THEN "Phi" ELSE "IAdd32"

\* No hull-shader pass is running while the Inst methods are called directly.
NoHull == [phase |-> "none"]

\* No graphics pipeline is being built.
NoPipeline == [phase |-> "none"]

\* Record of the last call: its receiver, its parameters, how it ended, and
\* what the receiver was when the call was made: its opcode, its NumArgs()
\* and (SetArg) the argument the slot held.
NoCall == [call |-> "none", inst |-> 0, index |-> 0, value |-> Empty, block |-> 0,
           preserve |-> FALSE, opcode |-> "Void", result |-> "returned",
           prev |-> Empty, prevop |-> "Void", prevnum |-> 0]

CallOn(name, I) == [NoCall EXCEPT !.call = name, !.inst = I, !.prevop = op[I],
                                  !.prevnum = NumArgs(Graph, I)]

Init ==
    /\ op = [I \in Insts |-> InitOp(I)]
    /\ args = [I \in Insts |-> EmptyArgs]
    /\ phi_args = [I \in Insts |-> <<>>]
    /\ users = [I \in Insts |-> <<>>]
    /\ num_uses = [I \in Insts |-> 0]
    /\ status = "ok"
    /\ debug \in BOOLEAN
    /\ last = NoCall
    /\ calls = 0
    /\ hull = NoHull
    /\ pipeline = NoPipeline

\* A phi grows to at most MaxPhiArgs operands in the model.
PhiRoom(I) == op[I] # "Phi" \/ Len(phi_args[I]) < MaxPhiArgs

UBChoices == {"crash", "corrupt"}
Start(c) == [Graph EXCEPT !.ubc = c]

ResultOf(S) == IF S.status # "ok" THEN S.status
               ELSE IF S.exc # "none" THEN "threw"
               ELSE "returned"

\* The graph after a call, and the record of the call.
Commit(S, l) ==
    /\ op' = S.op
    /\ args' = S.args
    /\ phi_args' = S.phi_args
    /\ users' = S.users
    /\ num_uses' = S.num_uses
    /\ status' = S.status
    /\ last' = [l EXCEPT !.result = ResultOf(S)]
    /\ calls' = calls + 1
    /\ UNCHANGED <<debug, hull, pipeline>>

CanCall == status = "ok" /\ calls < MaxCalls

\* c = "crash" always; the other outcome only where the call is undefined.
Pick(c, crashed) == c = "crash" \/ crashed.status = "ub"

DoSetArg ==
    /\ CanCall
    /\ \E I \in Insts, index \in 0..MaxPhiArgs, value \in InputValues, c \in UBChoices :
          /\ Pick(c, SetArg(Start("crash"), I, index, value))
          /\ Commit(SetArg(Start(c), I, index, value),
                    [CallOn("SetArg", I) EXCEPT !.index = index,
                                   !.value = value,
                                   !.prev = IF index < NumArgs(Graph, I)
                                            THEN Arg(Graph, I, index) ELSE Empty])

DoAddPhiOperand ==
    /\ CanCall
    /\ \E I \in Insts, pred \in Blocks, value \in InputValues, c \in UBChoices :
          /\ PhiRoom(I)
          /\ Pick(c, AddPhiOperand(Start("crash"), I, pred, value))
          /\ Commit(AddPhiOperand(Start(c), I, pred, value),
                    [CallOn("AddPhiOperand", I) EXCEPT !.block = pred,
                                   !.value = value])

DoClearArgs ==
    /\ CanCall
    /\ \E I \in Insts, c \in UBChoices :
          /\ Pick(c, ClearArgs(Start("crash"), I))
          /\ Commit(ClearArgs(Start(c), I),
                    CallOn("ClearArgs", I))

DoInvalidate ==
    /\ CanCall
    /\ \E I \in Insts, c \in UBChoices :
          /\ Pick(c, Invalidate(Start("crash"), I))
          /\ Commit(Invalidate(Start(c), I),
                    CallOn("Invalidate", I))

DoReplaceOpcode ==
    /\ CanCall
    /\ \E I \in Insts, opcode \in Opcodes :
          Commit(ReplaceOpcode(Start("crash"), I, opcode),
                 [CallOn("ReplaceOpcode", I) EXCEPT !.opcode = opcode])

DoReplaceUsesWith ==
    /\ CanCall
    /\ \E I \in Insts, replacement \in InputValues, preserve \in BOOLEAN,
          c \in UBChoices :
          /\ Pick(c, ReplaceUsesWith(Start("crash"), I, replacement, preserve))
          /\ Commit(ReplaceUsesWith(Start(c), I, replacement, preserve),
                    [CallOn("ReplaceUsesWith", I) EXCEPT !.value = replacement,
                                                        !.preserve = preserve])

Next ==
    \/ DoSetArg
    \/ DoAddPhiOperand
    \/ DoClearArgs
    \/ DoInvalidate
    \/ DoReplaceOpcode
    \/ DoReplaceUsesWith

Spec == Init /\ [][Next]_vars

\* ================================================================ claims
GraphNext == [op |-> op', args |-> args', phi_args |-> phi_args', users |-> users',
              num_uses |-> num_uses', status |-> status', exc |-> "none",
              ubc |-> "crash"]

\* Argument positions an instruction stores a value at.
Slots(S, I) == IF S.op[I] = "Phi" THEN 0..(Len(S.phi_args[I]) - 1) ELSE 0..(ArgSlots - 1)
BitRange == 0..(OperandLimit - 1)

\* Nodes of `user` in the user list of P, and whether bit i is set in one.
NodesOf(S, P, U) == {k \in 1..Len(S.users[P]) : S.users[P][k].user = U}
HasUse(S, P, U, i) == \E k \in NodesOf(S, P, U) : HasBit(S.users[P][k].operand_mask, i)
NonImmediate(S, v) == ~Diverges(S, v) /\ ~IsImmediate(S, v)

\* C1: in every reachable state, an argument (U, i) that is a non-immediate
\* value produced by P has exactly one node for U in P's user list, with bit
\* i set; and every bit (U, i) of P's user list has U's argument i refer to P.
C1_UseDefConsistent ==
    status = "ok" =>
      /\ \A U \in Insts : \A i \in Slots(Graph, U) :
            LET v == Arg(Graph, U, i)
            IN  NonImmediate(Graph, v) =>
                  /\ Cardinality(NodesOf(Graph, v.payload, U)) = 1
                  /\ HasUse(Graph, v.payload, U, i)
      /\ \A P \in Insts : \A k \in 1..Len(users[P]) : \A i \in BitRange :
            HasBit(users[P][k].operand_mask, i) =>
                /\ i \in Slots(Graph, users[P][k].user)
                /\ Arg(Graph, users[P][k].user, i) = Ref(P)

\* C2: after I.SetArg(i, v) returns, I.Arg(i) = v; a non-immediate v has
\* exactly one node for I in v.Inst()'s user list, with bit i set; a previous
\* non-immediate argument produced by another instruction than v's has lost
\* bit i for I, and no node is left with an empty mask.
C2_SetArgPost ==
    [][(last'.call = "SetArg" /\ last'.result = "returned") =>
         LET I == last'.inst
             i == last'.index
             v == last'.value
             old == Arg(Graph, I, i)
         IN  /\ Arg(GraphNext, I, i) = v
             /\ NonImmediate(Graph, v) =>
                   /\ Cardinality(NodesOf(GraphNext, v.payload, I)) = 1
                   /\ HasUse(GraphNext, v.payload, I, i)
             /\ (NonImmediate(Graph, old)
                    /\ (IsImmediate(Graph, v) \/ v.payload # old.payload)) =>
                   /\ ~HasUse(GraphNext, old.payload, I, i)
                   /\ \A k \in 1..Len(users'[old.payload]) :
                         users'[old.payload][k].operand_mask # 0]_vars

\* A SetArg that replaced a registered reference to one instruction by a
\* reference to another one.
C2_Witness ==
    /\ last.call = "SetArg" /\ last.result = "returned"
    /\ last.prev.type = "Opaque" /\ last.value.type = "Opaque"
    /\ last.prev.payload # last.value.payload
    /\ NonImmediate(Graph, last.prev) /\ NonImmediate(Graph, last.value)
    /\ HasUse(Graph, last.value.payload, last.inst, last.index)
    /\ \E k \in NodesOf(Graph, last.prev.payload, last.inst) :
          users[last.prev.payload][k].operand_mask # 0

\* A value whose Identity chain ends resolves to w.
ResolvesTo(S, v, w) == ~Diverges(S, v) /\ Resolve(S, v) = w
SameResolution(S, v, w) == ~Diverges(S, v) /\ ~Diverges(S, w) /\ Resolve(S, v) = Resolve(S, w)

\* The Identity chain of v passes through instruction X.
RECURSIVE ChainVisits(_, _, _, _)
ChainVisits(S, v, X, fuel) ==
    \/ v = Ref(X)
    \/ /\ IsIdentity(S, v) /\ fuel > 0
       /\ ChainVisits(S, Arg(S, v.payload, 0), X, fuel - 1)

\* A replacement for X that is not X under another name.
Replaces(S, X, R) == ~Diverges(S, R) /\ ~ChainVisits(S, R, X, ChaseFuel)

\* C3: after X.ReplaceUsesWith(R, preserve = false) returns, no argument in
\* the graph resolves to X, every (user, position) that held X holds an
\* argument resolving to what R resolves to, and X is Void with no users.
\* Stated for R that does not resolve through X and for users other than X.
C3_ReplaceUsesRemoves ==
    [][(/\ last'.call = "ReplaceUsesWith" /\ ~last'.preserve
        /\ last'.result = "returned"
        /\ Replaces(Graph, last'.inst, last'.value)) =>
         LET X == last'.inst
             R == last'.value
         IN  /\ \A U \in Insts : \A i \in Slots(GraphNext, U) :
                   ~ResolvesTo(GraphNext, Arg(GraphNext, U, i), Ref(X))
             /\ \A U \in Insts \ {X} : \A i \in Slots(Graph, U) :
                   Arg(Graph, U, i) = Ref(X) =>
                      /\ i \in Slots(GraphNext, U)
                      /\ SameResolution(GraphNext, Arg(GraphNext, U, i), R)
             /\ op'[X] = "Void"
             /\ users'[X] = <<>>
             /\ num_uses'[X] = 0]_vars

\* C4: after X.ReplaceUsesWith(R, preserve = true) returns, every (user,
\* position) that held X holds R, X is Identity with Arg(0) = R and no users,
\* and a value pointing at X resolves as R does.
\* Stated for R that does not resolve through X and for users other than X.
C4_ReplaceUsesPreserves ==
    [][(/\ last'.call = "ReplaceUsesWith" /\ last'.preserve
        /\ last'.result = "returned"
        /\ Replaces(Graph, last'.inst, last'.value)) =>
         LET X == last'.inst
             R == last'.value
         IN  /\ \A U \in Insts \ {X} : \A i \in Slots(Graph, U) :
                   Arg(Graph, U, i) = Ref(X) =>
                      /\ i \in Slots(GraphNext, U)
                      /\ Arg(GraphNext, U, i) = R
             /\ op'[X] = "Identity"
             /\ Arg(GraphNext, X, 0) = R
             /\ users'[X] = <<>>
             /\ num_uses'[X] = 0
             /\ SameResolution(GraphNext, Ref(X), R)
             /\ TryInstRecursive(GraphNext, Ref(X)) = TryInstRecursive(GraphNext, R)]_vars

\* Bits X holds in the user list of P.
UseBits(S, P, X) == {i \in BitRange : HasUse(S, P, X, i)}

\* C5: after X.Invalidate() returns, every use X held is un-registered (P's
\* user list has no bit for X, P's use count dropped by one per bit X held
\* there), X is Void with no arguments, and X has no users.
C5_InvalidatePost ==
    [][(last'.call = "Invalidate" /\ last'.result = "returned") =>
         LET X == last'.inst
         IN  /\ \A P \in Insts :
                   /\ NodesOf(GraphNext, P, X) = {}
                   /\ num_uses'[P] = num_uses[P] - Cardinality(UseBits(Graph, P, X))
             /\ op'[X] = "Void"
             /\ args'[X] = EmptyArgs
             /\ phi_args'[X] = <<>>
             /\ users'[X] = <<>>]_vars

GraphUnchanged == UNCHANGED <<op, args, phi_args, users, num_uses>>

\* C6: I.SetArg(i, v) with i >= I.NumArgs() ends in the out-of-range error and
\* leaves every argument, user list and use count as it was.
C6_SetArgOutOfRange ==
    [][(last'.call = "SetArg" /\ last'.index >= NumArgs(Graph, last'.inst)) =>
         /\ last'.result = "threw"
         /\ status' = "ok"
         /\ GraphUnchanged]_vars

\* A SetArg beyond the operands of a phi that has operands held by users.
C6_Witness ==
    /\ last.call = "SetArg" /\ last.result = "threw"
    /\ last.prevop = "Phi" /\ last.prevnum >= 1 /\ last.index >= last.prevnum
    /\ last.value.type = "Opaque"
    /\ \E P \in Insts : NodesOf(Graph, P, last.inst) # {}

\* C7: no step turns a non-phi into a phi; ReplaceOpcode(Phi) fails and
\* changes nothing; ReplaceOpcode(o), o # Phi, sets the opcode to o and leaves
\* a former phi with the fixed layout, every slot empty.
C7_NeverIntoPhi ==
    [][/\ \A I \in Insts : op[I] # "Phi" => op'[I] # "Phi"
       /\ (last'.call = "ReplaceOpcode" /\ last'.opcode = "Phi") =>
             /\ last'.result = "abort"
             /\ GraphUnchanged
       /\ (last'.call = "ReplaceOpcode" /\ last'.opcode # "Phi") =>
             /\ last'.result = "returned"
             /\ op'[last'.inst] = last'.opcode
             /\ op[last'.inst] = "Phi" =>
                   /\ phi_args'[last'.inst] = <<>>
                   /\ args'[last'.inst] = EmptyArgs]_vars

\* A phi that had operands was given a non-phi opcode.
C7_Witness ==
    /\ last.call = "ReplaceOpcode" /\ last.result = "returned"
    /\ last.prevop = "Phi" /\ last.prevnum >= 1
    /\ op[last.inst] = "IAdd32"

\* What AddPhiOperand(pred, v) does to a phi with n operands.
PhiAppendPost(I, pred, v) ==
    LET n == Len(phi_args[I])
    IN  /\ Len(phi_args'[I]) = n + 1
        /\ Arg(GraphNext, I, n) = v
        /\ PhiBlock(GraphNext, I, n) = pred
        /\ \A k \in 1..n : phi_args'[I][k] = phi_args[I][k]
        /\ NonImmediate(Graph, v) =>
              /\ Cardinality(NodesOf(GraphNext, v.payload, I)) = 1
              /\ HasUse(GraphNext, v.payload, I, n)
              /\ num_uses'[v.payload] = U32Inc(num_uses[v.payload])
        /\ \A P \in Insts : (IsImmediate(Graph, v) \/ P # v.payload) =>
              users'[P] = users[P] /\ num_uses'[P] = num_uses[P]

UsePairs(X) ==
    UNION {{[user |-> users[X][k].user, operand |-> i] :
               i \in {b \in BitRange : HasBit(users[X][k].operand_mask, b)}} :
           k \in 1..Len(users[X])}

\* C9: X.Uses() yields each pair (user, operand) whose bit is set in X's user
\* list exactly once and no other pair, and as many pairs as X.UseCount().
C9_UsesEnumerates ==
    status = "ok" =>
      \A X \in Insts :
         LET seq == Uses(users[X])
         IN  /\ \A j, k \in 1..Len(seq) : j # k => seq[j] # seq[k]
             /\ {seq[k] : k \in 1..Len(seq)} = UsePairs(X)
             /\ Len(seq) = num_uses[X]

\* Arg(0) taken k times while the value is an Identity instruction.
RECURSIVE StepN(_, _, _)
StepN(S, v, k) ==
    IF k = 0 THEN v
    ELSE LET u == StepN(S, v, k - 1)
         IN  IF IsIdentity(S, u) THEN Arg(S, u.payload, 0) ELSE u

FiniteChain(S, v) == \E k \in 0..NumInsts : ~IsIdentity(S, StepN(S, v, k))

\* C10: for a value with a finite Identity chain, Resolve() is the first
\* non-Identity value reached by taking Arg(0), TryInstRecursive() is its
\* instruction (null for an immediate), InstRecursive() is its instruction,
\* and IsImmediate() holds exactly when it is no instruction reference.
C10_ResolveThroughIdentity ==
    status = "ok" =>
      \A v \in InputValues :
         FiniteChain(Graph, v) =>
            LET r == Resolve(Graph, v)
            IN  /\ ~IsIdentity(Graph, r)
                /\ \E k \in 0..NumInsts :
                      /\ StepN(Graph, v, k) = r
                      /\ \A j \in 0..(k - 1) : IsIdentity(Graph, StepN(Graph, v, j))
                /\ TryInstRecursive(Graph, v) =
                      (IF r.type = "Opaque" THEN r.payload ELSE 0)
                /\ r.type = "Opaque" => InstRecursive(Graph, v) = r.payload
                /\ IsImmediate(Graph, v) <=> r.type # "Opaque"

\* Two Identity instructions in a row in front of an immediate, and in front
\* of an instruction.
C10_Witness ==
    /\ status = "ok"
    /\ \E a, b \in Insts :
          /\ a # b /\ op[a] = "Identity" /\ op[b] = "Identity"
          /\ args[a][1] = Ref(b)
          /\ args[b][1].type = "Opaque"
          /\ ~IsIdentity(Graph, args[b][1])

\* ================================================== hull shader transform
\* ------------------------------------------------------------------ bounds
MaxWalks == 2       \* WalkRingAccess calls made on one pass instance
MaxK == 1           \* AttrNum and Comp of an address range over 0..MaxK
NumUdRegs == 2      \* user-data registers a descriptor handle may come from

\* ------------------------------------------------------- more Value kinds
Attr(a) == [type |-> "Attribute", payload |-> a]
SReg(r) == [type |-> "ScalarReg", payload |-> r]
PatchVal(p) == [type |-> "Patch", payload |-> p]

\* IR::Attribute, as far as the pass names it.  The nine tessellation
\* constants follow TcsLsStride in the order of the constant buffer.
Param0 == 32
PrimitiveId == 76
InvocationId == 80
PackedHullInvocationInfo == 84
TcsLsStride == 90
TcsNumPatches == TcsLsStride + 2
TcsOutputBase == TcsLsStride + 3
TcsPatchConstBase == TcsLsStride + 5
TcsOffChipTessellationFactorThreshold == TcsLsStride + 7
TcsFirstEdgeTessFactorIndex == TcsLsStride + 8

\* IR::Patch: PatchFactor(i) and PatchGeneric(i) (tessellation factors come
\* first, the generic per-patch outputs follow them).
PatchGenericBase == 6
PatchFactor(i) == i
PatchGeneric(i) == PatchGenericBase + i

\* IR::TypeOf for the opcodes of the model.
TypeOf(o) == CASE o \in {"IAdd32", "IMul32", "ShiftLeftLogical32", "BitFieldUExtract",
                         "BitFieldSExtract", "GetAttributeU32", "ReadConstBuffer",
                         "BitCastU32F32", "GetUserData", "LoadSharedU32"} -> "U32"
               [] o \in {"BitCastF32U32", "GetAttribute"} -> "F32"
               [] o = "CompositeConstructU32x2" -> "U32x2"
               [] o = "CompositeConstructU32x3" -> "U32x3"
               [] o = "CompositeConstructU32x4" -> "U32x4"
               [] o = "Identity" -> "Opaque"
               [] OTHER -> "Void"

\* Value::Type: the type of what an Identity chain ends in; of an instruction,
\* the type of its result.
ValueType(S, v) ==
    LET r == Resolve(S, v)
    IN  IF r.type = "Opaque" THEN TypeOf(S.op[r.payload]) ELSE r.type

\* TypedValue<T>(value): throws when the value is not of type T.
TypedValue(S, v, T) == IF ValueType(S, v) # T THEN Throw(S) ELSE S

\* ------------------------------------------------------- building the IR
\* BufferInstInfo of an instruction's flags: globally_coherent, inst_offset.
NoFlags == [gc |-> FALSE, off |-> 0]

\* A new instruction, Inst::Inst(op, flags), at the end of the arena.
NewInst(S, opcode, fl) ==
    [S EXCEPT !.op = Append(@, opcode), !.args = Append(@, EmptyArgs),
              !.phi_args = Append(@, <<>>), !.users = Append(@, <<>>),
              !.num_uses = Append(@, 0), !.flags = Append(@, fl)]

RECURSIVE SetArgsFrom(_, _, _, _)
SetArgsFrom(S, I, vals, k) ==
    IF k > Len(vals) THEN S
    ELSE SetArgsFrom(SetArg(S, I, k - 1, vals[k]), I, vals, k + 1)

\* Position of instruction I in a block's list, 0 when it is not there.
IndexIn(list, I) == IF \E k \in 1..Len(list) : list[k] = I
                    THEN CHOOSE k \in 1..Len(list) : list[k] = I ELSE 0

InsertBefore(list, I, n) ==
    LET k == IndexIn(list, I)
    IN  SubSeq(list, 1, k - 1) \o <<n>> \o SubSeq(list, k, Len(list))

\* IREmitter::Inst at insertion point (block b, before instruction `before`):
\* the new instruction is Len(op) of the result.  before = 0 appends.
EmitInst(S, b, before, opcode, vals) ==
    LET n == Len(S.op) + 1
        S1 == NewInst(S, opcode, NoFlags)
        S2 == [S1 EXCEPT !.blocks[b] = IF before = 0 THEN Append(@, n)
                                       ELSE InsertBefore(@, before, n)]
    IN  IF ~Running(S) THEN S ELSE SetArgsFrom(S2, n, vals, 1)

\* ------------------------------------------------------ pattern matching
\* A pattern object: its kind, and what it was constructed with.  slot names
\* the Value a MatchValue / MatchImm writes to (its return_val reference).
Pat(kind, opcode, num, slot, subs) ==
    [kind |-> kind, opcode |-> opcode, num |-> num, slot |-> slot, subs |-> subs]
MatchValue(slot) == Pat("Value", "", 0, slot, <<>>)
MatchIgnore == Pat("Ignore", "", 0, 0, <<>>)
MatchImm(slot) == Pat("Imm", "", 0, slot, <<>>)
MatchAttribute(a) == Pat("Attribute", "", a, 0, <<>>)
MatchU32(n) == Pat("U32", "", n, 0, <<>>)
MakeInstPattern(opcode, subs) == Pat("Inst", opcode, 0, 0, subs)

\* The Values a match may write to: a, b, c of the caller.
NoCaps == <<Empty, Empty, Empty>>

MatchRes(m, f, caps) == [matched |-> m, fault |-> f, caps |-> caps]

\* An accessor used on a value of another discriminant: DEBUG_ASSERT in a
\* debug build, a read of the wrong union member otherwise.
WrongMember == IF debug THEN "abort" ELSE "ub"

\* DoMatch of every pattern kind.  fault is "none" when the match returns.
RECURSIVE DoMatch(_, _, _, _)
RECURSIVE DoMatchArgs(_, _, _, _, _)
DoMatch(S, p, v, caps) ==
    CASE p.kind = "Value" -> MatchRes(TRUE, "none", [caps EXCEPT ![p.slot] = v])
      [] p.kind = "Ignore" -> MatchRes(TRUE, "none", caps)
      [] p.kind = "Imm" ->
            IF Diverges(S, v) THEN MatchRes(FALSE, "hang", caps)
            ELSE IF ~IsImmediate(S, v) THEN MatchRes(FALSE, "none", caps)
            ELSE MatchRes(TRUE, "none", [caps EXCEPT ![p.slot] = v])
      [] p.kind = "Attribute" ->
            IF Diverges(S, v) THEN MatchRes(FALSE, "hang", caps)
            ELSE IF ValueType(S, v) # "Attribute" THEN MatchRes(FALSE, "none", caps)
            ELSE IF v.type # "Attribute" THEN MatchRes(FALSE, WrongMember, caps)
            ELSE MatchRes(v.payload = p.num, "none", caps)
      [] p.kind = "U32" ->
            IF Diverges(S, v) THEN MatchRes(FALSE, "hang", caps)
            ELSE IF ValueType(S, v) # "U32" THEN MatchRes(FALSE, "none", caps)
            ELSE IF Resolve(S, v).type # "U32" THEN MatchRes(FALSE, WrongMember, caps)
            ELSE MatchRes(Resolve(S, v).payload = p.num, "none", caps)
      [] OTHER ->
            IF Diverges(S, v) THEN MatchRes(FALSE, "hang", caps)
            ELSE LET inst == TryInstRecursive(S, v)
                 IN  IF inst = 0 THEN MatchRes(FALSE, "none", caps)
                     ELSE IF S.op[inst] # p.opcode THEN MatchRes(FALSE, "none", caps)
                     ELSE DoMatchArgs(S, p.subs, inst, 1, MatchRes(TRUE, "none", caps))

\* Mutant of DoMatchArgs: only the first sub-pattern is matched.
DoMatchArgs_FirstOnly(S, subs, inst, i, res) ==
    IF i > 1 \/ i > Len(subs) THEN res
    ELSE DoMatch(S, subs[i], Arg(S, inst, i - 1), res.caps)

\* The fold (matched = matched && sub.DoMatch(inst->Arg(Is))), ...: a
\* sub-pattern is tried only while every one before it matched.
DoMatchArgs(S, subs, inst, i, res) ==
    IF i > Len(subs) \/ ~res.matched \/ res.fault # "none" THEN res
    ELSE DoMatchArgs(S, subs, inst, i + 1,
                     DoMatch(S, subs[i], Arg(S, inst, i - 1), res.caps))

\* ------------------------------------------------------------ class Pass
\* Beside the graph, a state S of the pass carries: flags and blocks of the
\* program; tess_constants_initialized and info.tess_constants_ud_reg;
\* tess_reads, the number of times the constants were read from the
\* descriptor and published (lines 241-242); within_mul, terms and
\* linear_products; passthrough, what runtime_info.hs_info.IsPassthrough()
\* answers; ndebug, whether assert() is compiled out; address_info, the
\* result of the last WalkRingAccess.
InputCP == 0
OutputCP == 1
PatchConst == 2
UnknownRegion == 3

NoAddressInfo == [region |-> InputCP, attribute_byte_offset |-> 0,
                  control_point_index |-> Empty]

Reset(S) == [S EXCEPT !.within_mul = FALSE, !.terms = <<>>, !.linear_products = <<>>]

\* Mutant of InitTessConstants: the structure is read anew at every call.
InitTessConstants_Rereads(S, ud_reg) ==
    [S EXCEPT !.tess_constants_ud_reg = ud_reg,
              !.tess_reads = @ + 1,
              !.tess_constants_initialized = TRUE]

InitTessConstants(S, ud_reg) ==
    IF S.tess_constants_initialized
    THEN IF ud_reg # S.tess_constants_ud_reg THEN Fail(S, "abort") ELSE S
    ELSE [S EXCEPT !.tess_constants_ud_reg = ud_reg,
                   !.tess_reads = @ + 1,
                   !.tess_constants_initialized = TRUE]

\* The block an instruction is in (Inst::GetParent).
GetParent(S, I) == CHOOSE b \in 1..Len(S.blocks) : IndexIn(S.blocks[b], I) # 0

PushFactor(S, v) ==
    [S EXCEPT !.linear_products[Len(S.linear_products)] = Append(@, v)]

\* I.ReplaceUsesWithAndRemove(replacement), the replacement being the
\* instruction the emitter has just made.
ReplaceByEmitted(S, I) == ReplaceUsesWith(S, I, Ref(Len(S.op)), FALSE)

SetRv(S, v) == IF ~Running(S) THEN S ELSE [S EXCEPT !.rv = v]

\* TryReplaceTessConstantLoad from the call of InitTessConstants on; S is
\* the state after that call, off the offset the index pattern captured.
ReplaceTessConstant(S, read_const_buffer, off) ==
    IF ~Running(S) THEN S
    ELSE IF off.type # "U32" THEN Fail(S, WrongMember)
    ELSE IF off.payload < (TcsFirstEdgeTessFactorIndex - TcsLsStride) + 1
    THEN SetRv(ReplaceByEmitted(
                   EmitInst(S, GetParent(S, read_const_buffer), read_const_buffer,
                            IF TcsLsStride + off.payload =
                                   TcsOffChipTessellationFactorThreshold
                            THEN "GetAttribute" ELSE "GetAttributeU32",
                            <<Attr(TcsLsStride + off.payload), Imm(0)>>),
                   read_const_buffer),
               Attr(TcsLsStride + off.payload))
    ELSE S

\* TryReplaceTessConstantLoad: the state after it, with the value it returns
\* in S.rv.
TryReplaceTessConstantLoad(S, read_const_buffer) ==
    LET handle == Arg(S, read_const_buffer, 0)
        index == Arg(S, read_const_buffer, 1)
        m1 == DoMatch(S, MakeInstPattern("IAdd32", <<MatchImm(1), MatchU32(0)>>),
                      index, NoCaps)
        offset == m1.caps[1]
        m2 == DoMatch(S, MakeInstPattern("CompositeConstructU32x4",
                             <<MakeInstPattern("GetUserData", <<MatchImm(2)>>),
                               MatchIgnore, MatchIgnore, MatchIgnore>>),
                      handle, NoCaps)
        ud_reg_base == m2.caps[2]
        S0 == [S EXCEPT !.rv = Ref(read_const_buffer)]
    IN  IF m1.fault # "none" THEN Fail(S0, m1.fault)
        ELSE IF ~m1.matched THEN S0
        ELSE IF m2.fault # "none" THEN Fail(S0, m2.fault)
        ELSE IF ~m2.matched THEN Fail(S0, "abort")
        ELSE IF ud_reg_base.type # "ScalarReg" THEN Fail(S0, WrongMember)
        ELSE ReplaceTessConstant(InitTessConstants(S0, ud_reg_base.payload),
                                 read_const_buffer, Resolve(S, offset))

\* linear_products.back().emplace_back(v), v being what
\* TryReplaceTessConstantLoad returned.
PushRv(S) == IF ~Running(S) THEN S ELSE PushFactor(S, S.rv)

\* u32(2 << (b.U32() - 1)); a shift count outside 0..31 is undefined.
ShiftFactor(sh) == IF sh = 31 THEN (-I32Max) - 1
                   ELSE IF sh = 32 THEN 0
                   ELSE 2 * (2 ^ (sh - 1))

P_IMul32 == MakeInstPattern("IMul32", <<MatchValue(1), MatchValue(2)>>)
P_IAdd32 == MakeInstPattern("IAdd32", <<MatchValue(1), MatchValue(2)>>)
P_ShiftLeftLogical32 == MakeInstPattern("ShiftLeftLogical32", <<MatchValue(1), MatchImm(2)>>)
P_BitFieldSExtract ==
    MakeInstPattern("BitFieldSExtract", <<MatchValue(1), MatchIgnore, MatchIgnore>>)
P_BitFieldUExtract ==
    MakeInstPattern("BitFieldUExtract", <<MatchValue(1), MatchIgnore, MatchIgnore>>)
P_BitCastF32U32 == MakeInstPattern("BitCastF32U32", <<MatchValue(1)>>)
P_BitCastU32F32 == MakeInstPattern("BitCastU32F32", <<MatchValue(1)>>)

\* Pass::Visit.  Every pattern is tried with the caller's a, b, c as they
\* are; a pattern that fails after writing to one of them leaves it written.
RECURSIVE Visit(_, _)
RECURSIVE VisitChain(_, _, _, _)
Visit(S, node) ==
    IF ~Running(S) THEN S
    ELSE IF Diverges(S, node) THEN Fail(S, "hang")
    ELSE VisitChain(S, node, 1, NoCaps)

\* The else-if chain of Visit from its k-th condition on; the fourth is the
\* test for a ReadConstBuffer, which is no pattern.
VisitChain(S, node, k, caps) ==
    LET pats == <<P_IMul32, P_IAdd32, P_ShiftLeftLogical32, MatchIgnore,
                  P_BitFieldSExtract, P_BitFieldUExtract, P_BitCastF32U32,
                  P_BitCastU32F32>>
        m == DoMatch(S, pats[k], node, caps)
        a == m.caps[1]
        b == m.caps[2]
    IN  IF k = 4
        THEN IF ~IsImmediate(S, node)
                /\ S.op[TryInstRecursive(S, node)] = "ReadConstBuffer"
             THEN PushRv(TryReplaceTessConstantLoad(S, InstRecursive(S, node)))
             ELSE VisitChain(S, node, 5, caps)
        ELSE IF k > 8 THEN PushFactor(S, node)
        ELSE IF m.fault # "none" THEN Fail(S, m.fault)
        ELSE IF ~m.matched THEN VisitChain(S, node, k + 1, m.caps)
        ELSE IF k = 1
        THEN LET S1 == Visit([S EXCEPT !.within_mul = TRUE], a)
                 S2 == Visit(S1, b)
             IN  IF ~Running(S2) THEN S2
                 ELSE [S2 EXCEPT !.within_mul = S.within_mul]
        ELSE IF k = 2
        THEN IF debug /\ S.within_mul THEN Fail(S, "abort")
             ELSE LET S1 == IF ~S.within_mul
                            THEN [S EXCEPT !.terms[Len(S.terms)] = a] ELSE S
                      S2 == Visit(S1, a)
                      S3 == IF ~Running(S2) THEN S2
                            ELSE IF S2.within_mul
                            THEN [S2 EXCEPT !.linear_products = Append(@, <<>>),
                                            !.terms = Append(@, b)]
                            ELSE S2
                  IN  Visit(S3, b)
        ELSE IF k = 3
        THEN LET sh == Resolve(S, b)
             IN  IF sh.type # "U32" THEN Fail(S, WrongMember)
                 ELSE IF sh.payload < 1 \/ sh.payload > 32 THEN Fail(S, "ub")
                 ELSE Visit(PushFactor(S, Imm(ShiftFactor(sh.payload))), a)
        ELSE Visit(S, a)

\* The predicate handed to boost::adaptors::filter, run on one term: whether
\* it keeps the term, what it adds to region_count, and a fault of
\* value.Attribute().
RECURSIVE FilterTerm(_, _, _, _)
FilterTerm(S, term, k, add) ==
    IF k > Len(term) THEN [keep |-> TRUE, add |-> add, fault |-> "none"]
    ELSE LET value == term[k]
         IN  IF ValueType(S, value) # "Attribute" THEN FilterTerm(S, term, k + 1, add)
             ELSE IF value.type # "Attribute"
             THEN [keep |-> TRUE, add |-> add, fault |-> WrongMember]
             ELSE IF value.payload = TcsNumPatches \/ value.payload = TcsOutputBase
             THEN [keep |-> FALSE, add |-> add + 1, fault |-> "none"]
             ELSE IF value.payload = TcsPatchConstBase
             THEN FilterTerm(S, term, k + 1, add + 2)
             ELSE IF value.payload = PrimitiveId
             THEN [keep |-> FALSE, add |-> add, fault |-> "none"]
             ELSE FilterTerm(S, term, k + 1, add)

\* boost::adaptors::filter(linear_products, pred), its result dropped: the
\* filtered range is built and never walked.  Building its begin iterator
\* runs the predicate on the leading terms up to the first one it keeps;
\* linear_products itself is not changed.  The result is region_count.
RECURSIVE FilterBegin(_, _, _)
FilterBegin(S, i, region_count) ==
    IF i > Len(S.linear_products) THEN [count |-> region_count, fault |-> "none"]
    ELSE LET r == FilterTerm(S, S.linear_products[i], 1, 0)
         IN  IF r.fault # "none" THEN [count |-> region_count, fault |-> r.fault]
             ELSE IF r.keep THEN [count |-> region_count + r.add, fault |-> "none"]
             ELSE FilterBegin(S, i + 1, region_count + r.add)

\* std::accumulate(term, 0, product * v.U32()) with its ASSERT: -1 when the
\* ASSERT fails.  The products are u32; the model's immediates are small.
RECURSIVE Accumulate(_, _, _, _)
Accumulate(S, term, k, product) ==
    IF k > Len(term) THEN product
    ELSE IF ~(IsImmediate(S, term[k]) /\ ValueType(S, term[k]) = "U32") THEN -1
    ELSE Accumulate(S, term, k + 1, product * Resolve(S, term[k]).payload)

\* The loop of FindIndexInfo over linear_products from position i on.
RECURSIVE IndexLoop(_, _)
IndexLoop(S, i) ==
    IF ~Running(S) \/ i > Len(S.linear_products) THEN S
    ELSE LET term == S.linear_products[i]
         IN  IF \E k \in 1..Len(term) : ~IsImmediate(S, term[k])
             THEN IF S.address_info.control_point_index.type # "Void"
                  THEN Fail(S, "abort")
                  ELSE IndexLoop([S EXCEPT !.address_info.control_point_index =
                                               S.terms[i]], i + 1)
             ELSE LET sum == Accumulate(S, term, 1, 0)
                  IN  IF sum < 0 THEN Fail(S, "abort")
                      ELSE IndexLoop([S EXCEPT !.address_info.attribute_byte_offset =
                                                   @ + sum], i + 1)

\* Mutant of RegionTable: a count of 3 is taken as the per-patch constant
\* region.
RegionTable_Clamped(S, region_count) ==
    IF ~Running(S) THEN S
    ELSE IF region_count = 0 THEN [S EXCEPT !.address_info.region = InputCP]
    ELSE IF S.passthrough
    THEN IF ~(region_count <= 1) THEN Fail(S, "abort")
         ELSE [S EXCEPT !.address_info.region = PatchConst]
    ELSE IF ~(region_count <= 3) THEN Fail(S, "abort")
         ELSE [S EXCEPT !.address_info.region =
                   IF region_count = 1 THEN OutputCP ELSE PatchConst]

\* The end of FindIndexInfo: the region of region_count.
RegionTable(S, region_count) ==
    IF ~Running(S) THEN S
    ELSE IF region_count = 0 THEN [S EXCEPT !.address_info.region = InputCP]
    ELSE IF S.passthrough
    THEN IF ~(region_count <= 1) THEN Fail(S, "abort")
         ELSE [S EXCEPT !.address_info.region = PatchConst]
    ELSE IF ~(region_count <= 2) THEN Fail(S, "abort")
         ELSE [S EXCEPT !.address_info.region = region_count]

FindIndexInfo(S) ==
    IF ~Running(S) THEN S
    ELSE LET f == FilterBegin(S, 1, 0)
         IN  RegionTable(IF f.fault # "none" THEN Fail(S, f.fault) ELSE IndexLoop(S, 1),
                         f.count)

SharedAccess == {"LoadSharedU32", "LoadSharedU64", "LoadSharedU128",
                 "WriteSharedU32", "WriteSharedU64", "WriteSharedU128"}

WalkRingAccess(S, access) ==
    IF ~Running(S) THEN S
    ELSE IF S.op[access] \notin SharedAccess THEN Fail(S, "abort")
    ELSE LET S0 == [Reset(S) EXCEPT !.address_info = NoAddressInfo]
             addr == Arg(S0, access, 0)
             S1 == [S0 EXCEPT !.linear_products = <<<<>>>>, !.terms = <<addr>>]
         IN  FindIndexInfo(Visit(S1, addr))

\* ------------------------------------------------- HullShaderTransform
\* The two idioms of the first loop.
P_PatchIdExtract ==
    MakeInstPattern("BitFieldUExtract",
        <<MakeInstPattern("GetAttributeU32",
              <<MatchAttribute(PackedHullInvocationInfo), MatchIgnore>>),
          MatchU32(0), MatchU32(8)>>)
P_InvocationIdExtract ==
    MakeInstPattern("BitFieldUExtract",
        <<MakeInstPattern("GetAttributeU32",
              <<MatchAttribute(PackedHullInvocationInfo), MatchIgnore>>),
          MatchU32(8), MatchU32(5)>>)

\* Mutant of NormalizeInst: emits the attribute read and leaves the users of
\* the extract as they are.
NormalizeInst_KeepsUsers(S, b, I) ==
    IF DoMatch(S, P_PatchIdExtract, Ref(I), NoCaps).matched
    THEN EmitInst(S, b, I, "GetAttributeU32", <<Attr(PrimitiveId), Imm(0)>>)
    ELSE S

\* Body of the first loop for instruction I of block b: on a match,
\* emit.GetAttributeU32(attr) before I, then I.ReplaceUsesWithAndRemove.
NormalizeInst(S, b, I) ==
    LET m1 == DoMatch(S, P_PatchIdExtract, Ref(I), NoCaps)
        m2 == DoMatch(S, P_InvocationIdExtract, Ref(I), NoCaps)
    IN  IF m1.fault # "none" THEN Fail(S, m1.fault)
        ELSE IF ~m1.matched /\ m2.fault # "none" THEN Fail(S, m2.fault)
        ELSE IF m1.matched \/ m2.matched
        THEN ReplaceByEmitted(
                 EmitInst(S, b, I, "GetAttributeU32",
                          <<Attr(IF m1.matched THEN PrimitiveId ELSE InvocationId),
                            Imm(0)>>), I)
        ELSE S

\* The value of the instruction the emitter has just made, in S.rv.
KeepRv(S) == IF ~Running(S) THEN S ELSE [S EXCEPT !.rv = Ref(Len(S.op))]

\* GetValue of the StoreBuffer case: the state after it, the F32 in S.rv.
GetValue(S, b, I, data) ==
    IF ~Running(S) THEN S
    ELSE IF Diverges(S, data) THEN Fail(S, "hang")
    ELSE IF TryInstRecursive(S, data) # 0
            /\ S.op[TryInstRecursive(S, data)] = "BitCastU32F32"
    THEN SetRv(TypedValue(S, Arg(S, TryInstRecursive(S, data), 0), "F32"),
               Arg(S, TryInstRecursive(S, data), 0))
    ELSE KeepRv(EmitInst(TypedValue(S, data, "U32"), b, I, "BitCastF32U32", <<data>>))

\* ir.SetPatch(patch, value), the value being in S.rv.
EmitSetPatch(S, b, I, patch) ==
    IF ~Running(S) THEN S
    ELSE EmitInst(S, b, I, "SetPatch", <<PatchVal(patch), S.rv>>)

\* ir.SetPatch(IR::PatchFactor(factor), GetValue(data)).
SetPatchFactor(S, b, I, factor, data) ==
    EmitSetPatch(GetValue(S, b, I, data), b, I, PatchFactor(factor))

\* The writes of the StoreBuffer case from lane i on: of data itself when
\* there is one dword, of the arguments of the composite inst otherwise.
RECURSIVE FactorLoop(_, _, _, _, _, _, _, _)
FactorLoop(S, b, I, data, inst, factor_idx, i, num_dwords) ==
    IF ~Running(S) \/ i >= num_dwords THEN S
    ELSE FactorLoop(SetPatchFactor(S, b, I, factor_idx + i,
                                   IF num_dwords = 1 THEN data ELSE Arg(S, inst, i)),
                    b, I, data, inst, factor_idx, i + 1, num_dwords)

StoreBufferOps == <<"StoreBufferU32", "StoreBufferU32x2", "StoreBufferU32x3",
                    "StoreBufferU32x4">>
CompositeOps == {"CompositeConstructU32x2", "CompositeConstructU32x3",
                 "CompositeConstructU32x4"}

\* Mutant of RewriteStoreBuffer: only the last lane is written.
RewriteStoreBuffer_LastLane(S, b, I) ==
    LET num_dwords == CHOOSE n \in 1..4 : StoreBufferOps[n] = S.op[I]
        data == Arg(S, I, 2)
    IN  IF ~S.flags[I].gc THEN S
        ELSE FactorLoop(Invalidate(S, I), b, I, data, TryInstRecursive(S, data),
                        S.flags[I].off \div 4, num_dwords - 1, num_dwords)

\* case StoreBufferU32 .. StoreBufferU32x4.
RewriteStoreBuffer(S, b, I) ==
    LET num_dwords == CHOOSE n \in 1..4 : StoreBufferOps[n] = S.op[I]
        factor_idx == S.flags[I].off \div 4
        data == Arg(S, I, 2)
        inst == TryInstRecursive(S, data)
    IN  IF ~S.flags[I].gc THEN S
        ELSE IF num_dwords > 1 /\ Diverges(S, data) THEN Fail(Invalidate(S, I), "hang")
        ELSE IF num_dwords > 1 /\ ~(inst # 0 /\ S.op[inst] \in CompositeOps)
        THEN Fail(Invalidate(S, I), "abort")
        ELSE FactorLoop(Invalidate(S, I), b, I, data, inst, factor_idx, 0, num_dwords)

\* The write SetOutput emits, its data being the instruction the emitter has
\* just made.
EmitOutput(S, b, I, offset_dw, output_kind) ==
    IF ~Running(S) THEN S
    ELSE IF output_kind # OutputCP /\ ~S.ndebug /\ output_kind # PatchConst
    THEN Fail(S, "abort")
    ELSE EmitInst(S, b, I,
                  IF output_kind = OutputCP THEN "SetAttribute" ELSE "SetPatch",
                  IF output_kind = OutputCP
                  THEN <<Attr(Param0 + (offset_dw \div 4)), Ref(Len(S.op)),
                         Imm(offset_dw % 4)>>
                  ELSE <<PatchVal(PatchGeneric(offset_dw)), Ref(Len(S.op))>>)

\* The SetOutput lambda of the WriteShared case.
SetOutput(S, b, I, value, offset_dw, output_kind) ==
    EmitOutput(EmitInst(S, b, I, "BitCastF32U32", <<value>>), b, I, offset_dw,
               output_kind)

RECURSIVE OutputLoop_FirstOffset(_, _, _, _, _, _)
\* Mutant of OutputLoop: every dword is written at the offset of the first.
OutputLoop_FirstOffset(S, b, I, lanes, i, offset_dw) ==
    IF ~Running(S) \/ i > Len(lanes) THEN S
    ELSE OutputLoop_FirstOffset(SetOutput(S, b, I, lanes[i], offset_dw,
                                          S.address_info.region),
                                b, I, lanes, i + 1, offset_dw)

\* SetOutput(data_lo, offset_dw, region) and, for two dwords,
\* SetOutput(data_hi, offset_dw + 1, region).
RECURSIVE OutputLoop(_, _, _, _, _, _)
OutputLoop(S, b, I, lanes, i, offset_dw) ==
    IF ~Running(S) \/ i > Len(lanes) THEN S
    ELSE OutputLoop(SetOutput(S, b, I, lanes[i], offset_dw + (i - 1),
                              S.address_info.region),
                    b, I, lanes, i + 1, offset_dw)

InvalidateRunning(S, I) == IF ~Running(S) THEN S ELSE Invalidate(S, I)

\* The WriteShared case after WalkRingAccess returned into S.
WriteOutputs(S, b, I, lanes) ==
    IF ~Running(S) THEN S
    ELSE InvalidateRunning(
             OutputLoop(S, b, I, lanes, 1, S.address_info.attribute_byte_offset \div 4),
             I)

\* case WriteSharedU32, WriteSharedU64.
RewriteWriteShared(S, b, I) ==
    LET num_dwords == IF S.op[I] = "WriteSharedU32" THEN 1 ELSE 2
        data == Arg(S, I, 1)
        prod == InstRecursive(S, data)
        S0 == IF num_dwords = 1 THEN TypedValue(S, data, "U32")
              ELSE IF Diverges(S, data) THEN Fail(S, "hang")
              ELSE IF prod = -1 THEN Fail(S, "abort")
              ELSE IF prod = -2 THEN Fail(S, "ub")
              ELSE TypedValue(TypedValue(S, Arg(S, prod, 0), "U32"),
                              Arg(S, prod, 1), "U32")
    IN  IF ~Running(S0) THEN S0
        ELSE WriteOutputs(WalkRingAccess(S, I), b, I,
                          IF num_dwords = 1 THEN <<data>>
                          ELSE <<Arg(S, prod, 0), Arg(S, prod, 1)>>)

\* Body of the second loop for instruction I of block b.
RewriteInst(S, b, I) ==
    IF \E n \in 1..4 : StoreBufferOps[n] = S.op[I] THEN RewriteStoreBuffer(S, b, I)
    ELSE IF S.op[I] \in {"WriteSharedU32", "WriteSharedU64"}
    THEN RewriteWriteShared(S, b, I)
    ELSE S

\* Body of the last loop: a shared-memory access left over is unreachable.
ScanInst(S, I) == IF S.op[I] \in SharedAccess THEN Fail(S, "abort") ELSE S
\* ------------------------------------------------------ programs
\* What the pass is given is the IR of a hull shader.  The programs of the
\* model are emitted from expression trees, statement by statement, so that
\* every use is registered the way the Inst methods register it.  A leaf is
\* a value, or the value an earlier statement left in a slot.
T(opc, kids) == [e |-> opc, v |-> Empty, k |-> 0, fl |-> NoFlags, kids |-> kids]
TF(opc, kids, fl) == [e |-> opc, v |-> Empty, k |-> 0, fl |-> fl, kids |-> kids]
V(v) == [e |-> "leaf", v |-> v, k |-> 0, fl |-> NoFlags, kids |-> <<>>]
Slot(k) == [e |-> "slot", v |-> Empty, k |-> k, fl |-> NoFlags, kids |-> <<>>]

NoSlots == <<Empty, Empty>>

\* The instruction the emitter has just made, with its flags set.
SetFlags(S, fl) == IF ~Running(S) THEN S ELSE [S EXCEPT !.flags[Len(S.op)] = fl]

RECURSIVE BuildExpr(_, _, _)
RECURSIVE BuildKids(_, _, _, _, _)
RECURSIVE BuildKidsNext(_, _, _, _, _)
\* The state after emitting tree t at the end of block b, its value in S.rv.
BuildExpr(S, b, t) ==
    IF ~Running(S) THEN S
    ELSE IF t.e = "leaf" THEN [S EXCEPT !.rv = t.v]
    ELSE IF t.e = "slot" THEN [S EXCEPT !.rv = S.slots[t.k]]
    ELSE BuildKids(S, b, t, 1, <<>>)
\* The operands of t from the k-th on, then t itself.
BuildKids(S, b, t, k, vals) ==
    IF ~Running(S) THEN S
    ELSE IF k > Len(t.kids) THEN KeepRv(SetFlags(EmitInst(S, b, 0, t.e, vals), t.fl))
    ELSE BuildKidsNext(BuildExpr(S, b, t.kids[k]), b, t, k, vals)
BuildKidsNext(S, b, t, k, vals) == BuildKids(S, b, t, k + 1, Append(vals, S.rv))

Add(x, y) == T("IAdd32", <<x, y>>)
Mul(x, y) == T("IMul32", <<x, y>>)
Shl(x, n) == T("ShiftLeftLogical32", <<x, V(Imm(n))>>)
Bfe(x, o, c) == T("BitFieldUExtract", <<x, V(Imm(o)), V(Imm(c))>>)
AttrU32(a) == T("GetAttributeU32", <<V(Attr(a)), V(Imm(0))>>)

\* PrimitiveId and InvocationId as the translator emits them (the packed
\* idiom) or as the first loop of the pass leaves them.
PrimitiveIdExpr(idiom) ==
    IF idiom THEN Bfe(AttrU32(PackedHullInvocationInfo), 0, 8) ELSE AttrU32(PrimitiveId)
InvocationIdExpr(idiom) ==
    IF idiom THEN Bfe(AttrU32(PackedHullInvocationInfo), 8, 5) ELSE AttrU32(InvocationId)

\* A dword of the tess constant buffer bound through user data register r.
TessConstant(r, dword) ==
    T("ReadConstBuffer",
      <<T("CompositeConstructU32x4",
          <<T("GetUserData", <<V(SReg(r))>>), V(Imm(0)), V(Imm(0)), V(Imm(0))>>),
        Add(V(Imm(dword)), V(Imm(0)))>>)

NumPatchesDword == TcsNumPatches - TcsLsStride
PatchConstBaseDword == TcsPatchConstBase - TcsLsStride

CpStride == 16 * (MaxK + 1)

\* attr_num * 16 + comp * 4, folded into one immediate or spelled out.
AttrOffsetExpr(A, C, folded) ==
    IF folded THEN V(Imm(A * 16 + C * 4))
    ELSE Add(Mul(V(Imm(A)), V(Imm(16))), Mul(V(Imm(C)), V(Imm(4))))

\* ((PrimitiveId * K1) + (Index * K1)) + (attr_num * 16 + comp * 4); Index
\* is what the first statement left in slot 1.
InputCpExpr(idiom, A, C, folded) ==
    Add(Add(Mul(PrimitiveIdExpr(idiom), V(Imm(CpStride))),
            Mul(Slot(1), V(Imm(CpStride)))),
        AttrOffsetExpr(A, C, folded))

\* Scenario A plus a term with the number of patches (slot 2), before it or
\* after it.
OutputCpExpr(p) ==
    IF p.alt THEN Add(Mul(Slot(2), V(Imm(CpStride))), InputCpExpr(FALSE, p.A, p.C, TRUE))
    ELSE Add(InputCpExpr(FALSE, p.A, p.C, TRUE), Mul(Slot(2), V(Imm(CpStride))))

\* An expression of the family + * << BFE with the leaf of slot 1, by its
\* number.
Shapes == 1..8
FamilyExpr(shape) ==
    CASE shape = 1 -> Slot(1)
      [] shape = 2 -> Add(Mul(Slot(1), V(Imm(4))), V(Imm(16)))
      [] shape = 3 -> Add(V(Imm(16)), Mul(Slot(1), V(Imm(4))))
      [] shape = 4 -> Add(Shl(Slot(1), 2), V(Imm(16)))
      [] shape = 5 -> Add(Mul(Bfe(Slot(1), 0, 8), V(Imm(4))), V(Imm(16)))
      [] shape = 6 -> Mul(Add(Slot(1), V(Imm(1))), V(Imm(4)))
      [] shape = 7 -> Add(Mul(V(Imm(4)), V(Imm(4))), Slot(1))
      [] OTHER -> Add(Shl(Slot(1), 0), V(Imm(16)))

\* Lane i of the data of a tess factor store: a float reinterpreted as an
\* integer, or an integer.
Lane(p, i) ==
    IF p.idiom
    THEN T("BitCastU32F32", <<T("GetAttribute", <<V(Attr(Param0 + i)), V(Imm(0))>>)>>)
    ELSE V(Imm(ImmA + i))

\* The parameters of a program of the model.
Prog(kind, A, C, alt, idiom, n, r, r2) ==
    [kind |-> kind, A |-> A, C |-> C, alt |-> alt, idiom |-> idiom, n |-> n,
     r |-> r, r2 |-> r2]

Ks == 0..MaxK
ShiftAmounts == {0, 1, 2, 30, 31}
UdRegs == 1..NumUdRegs

Programs ==
    {Prog("A", A, C, alt, idiom, n, 1, 1) :
        A \in Ks, C \in Ks, alt \in BOOLEAN, idiom \in BOOLEAN, n \in 1..2}
    \cup {Prog("B", A, C, alt, FALSE, n, 1, 1) :
        A \in Ks, C \in Ks, alt \in BOOLEAN, n \in 1..3}
    \cup {Prog("C", A, 0, alt, FALSE, n, 1, 1) :
        A \in Ks, alt \in BOOLEAN, n \in 1..2}
    \cup {Prog("X", 0, 0, alt, FALSE, n, 1, 1) : alt \in BOOLEAN, n \in Shapes}
    \cup {Prog("T", 0, 0, alt, FALSE, 1, r, r2) :
        alt \in BOOLEAN, r \in UdRegs, r2 \in UdRegs}
    \cup {Prog("S", A, 0, alt, idiom, n, 1, 1) :
        A \in Ks, alt \in BOOLEAN, idiom \in BOOLEAN, n \in 1..4}
    \cup {Prog("I", 0, 0, FALSE, TRUE, n, 1, 1) : n \in 1..4}
    \cup {Prog("N", 0, 0, alt, FALSE, 1, 1, 1) : alt \in BOOLEAN}
    \cup {Prog("H", 0, 0, FALSE, FALSE, n, 1, 1) : n \in ShiftAmounts}
    \cup {Prog("M", 0, 0, alt, FALSE, 1, 1, 1) : alt \in BOOLEAN}

\* A statement: a tree, the block it is emitted in, the slot its value is
\* left in (0 for none).
Stmt(t, b, slot) == [t |-> t, b |-> b, slot |-> slot]

Load(addr) == Stmt(T("LoadSharedU32", <<addr>>), NumBlocks, 0)
Write32(addr) == Stmt(T("WriteSharedU32", <<addr, V(Imm(ImmA))>>), NumBlocks, 0)
Write64(addr) ==
    Stmt(T("WriteSharedU64",
           <<addr, T("CompositeConstructU32x2", <<V(Imm(ImmA)), V(Imm(0))>>)>>),
         NumBlocks, 0)

\* Scenario A: a load or a write in the input control point shape.
StmtsA(p) ==
    <<Stmt(InvocationIdExpr(p.idiom), 1, 1),
      IF p.n = 1 THEN Load(InputCpExpr(p.idiom, p.A, p.C, p.alt))
      ELSE Write32(InputCpExpr(p.idiom, p.A, p.C, p.alt))>>

\* Scenario B: a write in the output control point shape, of one dword or
\* (n = 3) of two; with n = 2, a second write whose address uses the same
\* read of the constant.
StmtsB(p) ==
    <<Stmt(InvocationIdExpr(FALSE), 1, 1),
      Stmt(TessConstant(p.r, NumPatchesDword), 1, 2),
      IF p.n = 3 THEN Write64(OutputCpExpr(p)) ELSE Write32(OutputCpExpr(p))>>
    \o (IF p.n = 2 THEN <<Write64(OutputCpExpr(p))>> ELSE <<>>)

\* Scenario C: two terms with the number of patches (two reads of the
\* constant) and the patch constant base, which comes first or last.  With
\* n = 2 the terms with the number of patches are left out.
StmtsC(p) ==
    LET np1 == Mul(TessConstant(p.r, NumPatchesDword), V(Imm(CpStride)))
        np2 == Mul(TessConstant(p.r, NumPatchesDword), V(Imm(16)))
        pcb == TessConstant(p.r, PatchConstBaseDword)
        rest == Add(Mul(PrimitiveIdExpr(FALSE), V(Imm(CpStride))),
                    AttrOffsetExpr(p.A, 0, TRUE))
    IN  <<Stmt(InvocationIdExpr(FALSE), 1, 1),
          Write32(IF p.n = 2 THEN (IF p.alt THEN Add(pcb, rest) ELSE Add(rest, pcb))
                  ELSE IF p.alt THEN Add(Add(pcb, Add(np1, np2)), rest)
                  ELSE Add(Add(Add(np1, np2), pcb), rest))>>

\* A load whose address is of the family; its leaf is an instruction (alt)
\* or an immediate.
StmtsX(p) ==
    <<Stmt(IF p.alt THEN InvocationIdExpr(FALSE) ELSE V(Imm(3)), 1, 1),
      Load(FamilyExpr(p.n))>>

\* Two loads, each with its own read of the tess constant buffer, through
\* user data registers r and r2; with alt the first read is of a dword the
\* pass does not replace.
StmtsT(p) ==
    <<Stmt(InvocationIdExpr(FALSE), 1, 1),
      Load(Add(Mul(Slot(1), V(Imm(CpStride))),
               Mul(TessConstant(p.r, IF p.alt
                                     THEN (TcsFirstEdgeTessFactorIndex - TcsLsStride) + 1
                                     ELSE NumPatchesDword),
                   V(Imm(16))))),
      Load(Add(Mul(Slot(1), V(Imm(CpStride))),
               Mul(TessConstant(p.r2, NumPatchesDword), V(Imm(16)))))>>

\* A buffer store of n dwords, globally coherent (alt) or not, at a static
\* offset.
StmtsS(p) ==
    <<Stmt(IF p.n = 1 THEN Lane(p, 0)
           ELSE T(CASE p.n = 2 -> "CompositeConstructU32x2"
                    [] p.n = 3 -> "CompositeConstructU32x3"
                    [] OTHER -> "CompositeConstructU32x4",
                  [i \in 1..p.n |-> Lane(p, i - 1)]), 1, 1),
      Stmt(TF(StoreBufferOps[p.n], <<V(Imm(0)), V(Imm(0)), Slot(1)>>,
              [gc |-> p.alt, off |-> 8 * p.A + 2]), NumBlocks, 0)>>

\* Extracts of the packed invocation info and extracts that only look like
\* them, with users.
StmtsI(p) ==
    <<Stmt(AttrU32(PackedHullInvocationInfo), 1, 1),
      Stmt(InvocationIdExpr(FALSE), 1, 2),
      Stmt(CASE p.n = 1 -> Mul(Add(Bfe(Slot(1), 0, 8), Bfe(Slot(1), 8, 5)),
                               Bfe(Slot(1), 0, 8))
             [] p.n = 2 -> Add(Bfe(T("Identity", <<Slot(1)>>), 0, 8),
                               T("Identity", <<Bfe(Slot(1), 8, 5)>>))
             [] p.n = 3 -> Add(Bfe(Slot(1), 16, 8), Bfe(AttrU32(PrimitiveId), 0, 8))
             [] OTHER -> Add(Bfe(Slot(1), 0, 8),
                             T("BitFieldUExtract", <<Slot(1), Slot(2), V(Imm(8))>>)),
           NumBlocks, 0)>>

\* A load whose address is one term, the number of patches (or, with alt,
\* the patch constant base) times an immediate.
StmtsN(p) ==
    <<Load(Mul(TessConstant(p.r, IF p.alt THEN PatchConstBaseDword ELSE NumPatchesDword),
               V(Imm(CpStride))))>>

\* A load whose address has two addends with a non-immediate leaf each
\* (slots 1 and 2), and with alt an immediate addend between them.
StmtsM(p) ==
    <<Stmt(InvocationIdExpr(FALSE), 1, 1),
      Stmt(T("GetUserData", <<V(SReg(p.r))>>), 1, 2),
      Load(IF p.alt
           THEN Add(Add(Mul(Slot(1), V(Imm(4))), V(Imm(16))), Mul(Slot(2), V(Imm(4))))
           ELSE Add(Mul(Slot(1), V(Imm(4))), Mul(Slot(2), V(Imm(4)))))>>

\* A load whose address is the leaf of slot 1 shifted left by n.
StmtsH(p) ==
    <<Stmt(InvocationIdExpr(FALSE), 1, 1), Load(Shl(Slot(1), p.n))>>

Stmts(p) ==
    CASE p.kind = "A" -> StmtsA(p)
      [] p.kind = "H" -> StmtsH(p)
      [] p.kind = "M" -> StmtsM(p)
      [] p.kind = "N" -> StmtsN(p)
      [] p.kind = "B" -> StmtsB(p)
      [] p.kind = "C" -> StmtsC(p)
      [] p.kind = "X" -> StmtsX(p)
      [] p.kind = "T" -> StmtsT(p)
      [] p.kind = "S" -> StmtsS(p)
      [] OTHER -> StmtsI(p)

\* The pass object and the program before anything is emitted.
NewProgram(p, pt, nd) ==
    [op |-> <<>>, args |-> <<>>, phi_args |-> <<>>, users |-> <<>>,
     num_uses |-> <<>>, status |-> "ok", exc |-> "none", ubc |-> "crash",
     flags |-> <<>>, blocks |-> [b \in Blocks |-> <<>>], rv |-> Empty,
     tess_constants_initialized |-> FALSE, tess_constants_ud_reg |-> 0,
     tess_reads |-> 0, within_mul |-> FALSE, terms |-> <<>>,
     linear_products |-> <<>>, passthrough |-> pt, ndebug |-> nd,
     address_info |-> NoAddressInfo,
     prog |-> p, slots |-> NoSlots,
     phase |-> "build", cb |-> 0, cur |-> 0, done |-> 0, walks |-> 0, access |-> 0,
     probe |-> [pat |-> 0, v |-> Empty, res |-> MatchRes(FALSE, "none", NoCaps)]]

HullFields == DOMAIN NewProgram(Prog("A", 0, 0, FALSE, FALSE, 1, 1, 1), FALSE, FALSE)
              \ {"op", "args", "phi_args", "users", "num_uses", "status", "exc", "ubc"}

KeepSlot(S, slot) ==
    IF ~Running(S) \/ slot = 0 THEN S ELSE [S EXCEPT !.slots[slot] = S.rv]

\* The statements from the k-th on.
RECURSIVE RunStmts(_, _, _)
RunStmts(S, sts, k) ==
    IF ~Running(S) \/ k > Len(sts) THEN S
    ELSE RunStmts(KeepSlot(BuildExpr(S, sts[k].b, sts[k].t), sts[k].slot), sts, k + 1)

Build(p, pt, nd) == RunStmts(NewProgram(p, pt, nd), Stmts(p), 1)

\* ------------------------------------------------- running the pass
\* The pass and the program it works on, as one state.
PassState == Graph @@ hull

HullOf(S) == [f \in HullFields |-> S[f]]

\* First instruction of the blocks from b on; cur = 0 when there is none.
RECURSIVE FirstFrom(_, _)
FirstFrom(S, b) ==
    IF b > Len(S.blocks) THEN [cb |-> 0, cur |-> 0]
    ELSE IF Len(S.blocks[b]) > 0 THEN [cb |-> b, cur |-> S.blocks[b][1]]
    ELSE FirstFrom(S, b + 1)

\* The instruction a loop over the blocks and their lists comes to after I
\* of block b.
NextCursor(S, b, I) ==
    LET k == IndexIn(S.blocks[b], I)
    IN  IF k < Len(S.blocks[b]) THEN [cb |-> b, cur |-> S.blocks[b][k + 1]]
        ELSE FirstFrom(S, b + 1)

NextPhase(ph) == CASE ph = "normalize" -> "rewrite"
                   [] ph = "rewrite" -> "scan"
                   [] OTHER -> "done"

\* The pass record after the body of a loop ran on the current instruction:
\* on to the next instruction, or to the next loop.
Advance(S) ==
    LET nx == NextCursor(S, S.cb, S.cur)
        first == FirstFrom(S, 1)
    IN  IF ~Running(S) THEN HullOf(S)
        ELSE IF nx.cur # 0
        THEN [HullOf(S) EXCEPT !.cb = nx.cb, !.cur = nx.cur, !.done = @ + 1]
        ELSE IF NextPhase(S.phase) = "done"
        THEN [HullOf(S) EXCEPT !.phase = "done", !.cb = 0, !.cur = 0, !.done = 0]
        ELSE [HullOf(S) EXCEPT !.phase = NextPhase(S.phase), !.cb = first.cb,
                               !.cur = first.cur, !.done = 0]

HullCommit(S, H) ==
    /\ op' = S.op
    /\ args' = S.args
    /\ phi_args' = S.phi_args
    /\ users' = S.users
    /\ num_uses' = S.num_uses
    /\ status' = (IF S.status = "ok" /\ S.exc # "none" THEN "threw" ELSE S.status)
    /\ hull' = H
    /\ UNCHANGED <<debug, last, calls, pipeline>>

\* Before the pass: a program to be translated, the build, and the mode of
\* the shader.
HullInit ==
    \E p \in Programs, pt \in BOOLEAN, nd \in BOOLEAN :
        /\ debug \in {d \in BOOLEAN : ~(d /\ nd)}
        /\ op = <<>>
        /\ args = <<>>
        /\ phi_args = <<>>
        /\ users = <<>>
        /\ num_uses = <<>>
        /\ status = "ok"
        /\ last = NoCall
        /\ calls = 0
        /\ hull = HullOf(NewProgram(p, pt, nd))
        /\ pipeline = NoPipeline

HullRunning == status = "ok"

TranslateCommit(S, phase) ==
    HullCommit(S, [HullOf(S) EXCEPT !.phase = phase, !.cb = FirstFrom(S, 1).cb,
                                    !.cur = FirstFrom(S, 1).cur])

\* The translator emits the program; what runs next is `phase`.
Translate(phase) ==
    /\ HullRunning /\ hull.phase = "build"
    /\ TranslateCommit(Build(hull.prog, hull.passthrough, hull.ndebug), phase)

StepCommit(S) == HullCommit(S, Advance(S))

\* One iteration of the first loop (the extract idioms).
NormalizeStep ==
    /\ HullRunning /\ hull.phase = "normalize"
    /\ StepCommit(NormalizeInst(PassState, hull.cb, hull.cur))

\* One iteration of the second loop (stores and shared-memory writes).
RewriteStep ==
    /\ HullRunning /\ hull.phase = "rewrite"
    /\ StepCommit(RewriteInst(PassState, hull.cb, hull.cur))

\* One iteration of the last loop (nothing shared may be left).
ScanStep ==
    /\ HullRunning /\ hull.phase = "scan"
    /\ StepCommit(ScanInst(PassState, hull.cur))

PassTranslate == Translate("normalize")
PassNext == PassTranslate \/ NormalizeStep \/ RewriteStep \/ ScanStep
PassSpec == HullInit /\ [][PassNext]_vars

WalkCommit(S, access) ==
    HullCommit(S, [HullOf(S) EXCEPT !.walks = @ + 1, !.access = access])

\* A call of WalkRingAccess on one of the accesses of the program.
DoWalkRingAccess ==
    /\ HullRunning /\ hull.phase = "walk" /\ hull.walks < MaxWalks
    /\ hull.probe.pat = 0
    /\ \E I \in 1..Len(op) :
          /\ op[I] \in SharedAccess
          /\ WalkCommit(WalkRingAccess(PassState, I), I)

\* The patterns DoMatch is called with below.
ProbePatterns ==
    <<P_IAdd32, P_PatchIdExtract,
      MakeInstPattern("IAdd32", <<MatchImm(1), MatchU32(0)>>),
      MakeInstPattern("ReadConstBuffer",
          <<MakeInstPattern("CompositeConstructU32x4",
                <<MakeInstPattern("GetUserData", <<MatchImm(2)>>),
                  MatchIgnore, MatchIgnore, MatchIgnore>>),
            MatchValue(1)>>),
      MakeInstPattern("BitFieldUExtract", <<MatchIgnore, MatchU32(8), MatchValue(3)>>)>>

ProbeKinds == {"I", "T"}

\* A call of DoMatch on a value of the program.
DoMatchProbe ==
    /\ HullRunning /\ hull.phase = "walk" /\ hull.probe.pat = 0
    /\ hull.prog.kind \in ProbeKinds
    /\ \E k \in 1..Len(ProbePatterns),
          v \in {Imm(0), Attr(PrimitiveId)} \cup {Ref(I) : I \in 1..Len(op)} :
          /\ hull' = [hull EXCEPT !.probe =
                         [pat |-> k, v |-> v,
                          res |-> DoMatch(PassState, ProbePatterns[k], v, NoCaps)]]
          /\ UNCHANGED <<op, args, phi_args, users, num_uses, status, debug, last, calls,
                       pipeline>>

WalkTranslate == Translate("walk")
WalkNext == WalkTranslate \/ DoWalkRingAccess \/ DoMatchProbe
WalkSpec == HullInit /\ [][WalkNext]_vars

\* ------------------------------------------------------------- claims
\* What the probed pattern and the probed value were.
ProbePat == ProbePatterns[hull.probe.pat]
Probed == hull.probe.pat # 0

\* C11: a pattern MakeInstPattern<O>(p0, .., pn-1), when its DoMatch
\* returns, has matched V exactly when V resolves through Identity to an
\* instruction of opcode O and every pi matches argument i of that
\* instruction; so it fails on every immediate and on every other opcode.
\* A call of DoMatch leaves every opcode, argument and user list as it was.
C11_InstPatternMatches ==
    /\ [](Probed /\ hull.probe.res.fault = "none" =>
            LET S == PassState
                r == Resolve(S, hull.probe.v)
            IN  /\ hull.probe.res.matched <=>
                      /\ r.type = "Opaque"
                      /\ op[r.payload] = ProbePat.opcode
                      /\ \A i \in 1..Len(ProbePat.subs) :
                            DoMatch(S, ProbePat.subs[i], Arg(S, r.payload, i - 1),
                                    NoCaps).matched
                /\ r.type # "Opaque" => ~hull.probe.res.matched)
    /\ [][hull'.probe # hull.probe =>
            UNCHANGED <<op, args, phi_args, users, num_uses>>]_vars

\* A pattern with several sub-patterns matched a value through an Identity.
C11_Witness ==
    /\ Probed
    /\ hull.probe.res.matched
    /\ IsIdentity(PassState, hull.probe.v)
    /\ Len(ProbePat.subs) > 1

\* What the last call of WalkRingAccess returned.
Walked(kind) == /\ hull.phase = "walk" /\ hull.walks > 0 /\ hull.prog.kind = kind
Info == hull.address_info

\* C12: for an access whose address is
\* ((PrimitiveId * K1) + (Index * K1)) + (AttrNum * 16 + Comp * 4), with no
\* patch-count factor, WalkRingAccess returns the input control point
\* region, the attribute byte offset AttrNum * 16 + Comp * 4 and the Index
\* sub-expression as the control point index.
C12_ScenarioA ==
    Walked("A") =>
        /\ status = "ok"
        /\ Info.region = InputCP
        /\ Info.attribute_byte_offset = hull.prog.A * 16 + hull.prog.C * 4
        /\ Info.control_point_index = hull.slots[1]

\* C13: in non-passthrough mode, for an access whose address is of the
\* scenario A shape with one more additive term holding the number of
\* patches, WalkRingAccess returns the output control point region.
C13_ScenarioB ==
    Walked("B") /\ ~hull.passthrough =>
        /\ status = "ok"
        /\ Info.region = OutputCP

\* C14: in non-passthrough mode, for an access whose address has two
\* separate terms with the number of patches and a factor that is the patch
\* constant base, WalkRingAccess returns the per-patch constant region, and
\* does not abort.
C14_ScenarioC ==
    Walked("C") /\ hull.prog.n = 1 /\ ~hull.passthrough =>
        /\ status = "ok"
        /\ Info.region = PatchConst

\* The pass is about to run the body of its second loop on a buffer store.
AtStore ==
    /\ status = "ok" /\ hull.phase = "rewrite" /\ hull.cur # 0
    /\ \E n \in 1..4 : StoreBufferOps[n] = op[hull.cur]
StoreDwords == CHOOSE n \in 1..4 : StoreBufferOps[n] = op[hull.cur]
\* Lane i of the data of the store.
StoreLane(i) ==
    IF StoreDwords = 1 THEN args[hull.cur][3]
    ELSE Arg(PassState, TryInstRecursive(PassState, args[hull.cur][3]), i)
\* The instructions of opcode o emitted into block b since there were
\* `before` instructions, in the order of the block.
EmittedIn(blocks, ops, b, before, o) ==
    SelectSeq(blocks[b], LAMBDA j : j > before /\ ops[j] = o)
\* v is lane `lane` as a float: the operand of the BitCastU32F32 the lane
\* resolves to, or a BitCastF32U32 of the lane emitted by the step.
FloatOfLane(ops, as, before, v, lane) ==
    LET p == TryInstRecursive(PassState, lane)
    IN  IF p # 0 /\ op[p] = "BitCastU32F32" THEN v = args[p][1]
        ELSE /\ v.type = "Opaque" /\ v.payload > before
             /\ ops[v.payload] = "BitCastF32U32"
             /\ as[v.payload][1] = lane

\* C15: the step of the second loop on a StoreBufferU32xN flagged globally
\* coherent, with instruction offset o, invalidates the store and emits
\* before it exactly N SetPatch writes, the i-th to tess factor (o >> 2) + i
\* with lane i of the data as a float; a store not flagged globally
\* coherent is left as it is.
C15_ScenarioD ==
    [][AtStore =>
        IF ~hull.flags[hull.cur].gc
        THEN UNCHANGED <<op, args, users, num_uses, status>>
                /\ hull'.blocks = hull.blocks /\ hull'.flags = hull.flags
        ELSE LET w == EmittedIn(hull'.blocks, op', hull.cb, Len(op), "SetPatch")
             IN  /\ status' = "ok"
                 /\ op'[hull.cur] = "Void"
                 /\ Len(w) = StoreDwords
                 /\ \A j \in Len(op) + 1 .. Len(op') :
                       op'[j] \in {"SetPatch", "BitCastF32U32"}
                 /\ \A j \in 1..Len(op) : j # hull.cur => op'[j] = op[j]
                 /\ \A i \in 1..StoreDwords :
                       /\ args'[w[i]][1] =
                             PatchVal(PatchFactor((hull.flags[hull.cur].off \div 4) + i - 1))
                       /\ FloatOfLane(op', args', Len(op), args'[w[i]][2],
                                      StoreLane(i - 1))]_vars

C15_Witness ==
    /\ status = "ok" /\ hull.prog.kind = "S" /\ hull.prog.n = 4 /\ hull.prog.alt
    /\ hull.prog.idiom /\ hull.prog.A = 1
    /\ hull.phase = "scan"
    /\ Len(SelectSeq(hull.blocks[NumBlocks], LAMBDA j : op[j] = "SetPatch")) = 4

\* C16: for a program whose shared-memory loads and writes all have
\* addresses of the recognized shapes (scenario A loads, scenario B
\* writes), HullShaderTransform runs to its end without aborting, and then
\* no instruction of any block is a shared-memory load or write.
C16_ScenarioE ==
    (hull.prog.kind = "A" /\ hull.prog.n = 1) \/ (hull.prog.kind = "B" /\ ~hull.passthrough) =>
        /\ status = "ok"
        /\ hull.phase = "done" =>
              \A b \in 1..Len(hull.blocks) : \A k \in 1..Len(hull.blocks[b]) :
                  op[hull.blocks[b][k]] \notin SharedAccess

\* The pass is about to run the body of its second loop on a write to
\* shared memory.
AtWrite ==
    /\ status = "ok" /\ hull.phase = "rewrite" /\ hull.cur # 0
    /\ op[hull.cur] \in {"WriteSharedU32", "WriteSharedU64"}

\* C17: when the address of a WriteSharedU32 / WriteSharedU64 is classified
\* as neither the output control point nor the per-patch constant region,
\* the step emits no SetAttribute and no SetPatch, and the pass aborts.
C17_NoGuessedWrite ==
    [][AtWrite /\ hull'.address_info.region \notin {OutputCP, PatchConst} =>
          /\ status' = "abort"
          /\ \A j \in Len(op) + 1 .. Len(op') :
                op'[j] \notin {"SetAttribute", "SetPatch"}]_vars

\* Value v is, or is computed from, value leaf.
RECURSIVE Holds(_, _)
Holds(v, leaf) ==
    \/ v = leaf
    \/ /\ v.type = "Opaque"
       /\ \E i \in 1..NumArgsOf(op[v.payload]) : Holds(args[v.payload][i], leaf)

\* C18: for an address built from +, *, << by an immediate and bit-field
\* extracts over at most one non-immediate leaf, WalkRingAccess returns,
\* with one of the three regions and with a control point index that is a
\* sub-expression of the address holding the leaf (an empty value when the
\* leaf is an immediate).
C18_FamilyWalk ==
    Walked("X") =>
        /\ status = "ok"
        /\ Info.region \in {InputCP, OutputCP, PatchConst}
        /\ IF hull.prog.alt
           THEN Holds(Info.control_point_index, hull.slots[1])
           ELSE Info.control_point_index = Empty

\* A run of the first loop from cursor c on.
RECURSIVE NormalizeFrom(_, _)
RECURSIVE NormalizeNext(_, _)
NormalizeFrom(S, c) ==
    IF ~Running(S) \/ c.cur = 0 THEN S
    ELSE NormalizeNext(NormalizeInst(S, c.cb, c.cur), c)
NormalizeNext(S, c) ==
    IF ~Running(S) THEN S ELSE NormalizeFrom(S, NextCursor(S, c.cb, c.cur))

\* The first loop has just returned.
AfterNormalize == status = "ok" /\ hull.phase = "rewrite" /\ hull.done = 0
\* Instruction I is one of the two extracts of the packed invocation info.
IsExtract(I, pattern) == DoMatch(PassState, pattern, Ref(I), NoCaps).matched
\* Value v is a read of attribute a.
ReadsAttribute(ops, as, v, a) ==
    /\ v.type = "Opaque"
    /\ ops[v.payload] = "GetAttributeU32"
    /\ as[v.payload][1] = Attr(a)
SameProgram(S) ==
    /\ S.status = "ok" /\ S.op = op /\ S.args = args /\ S.users = users
    /\ S.num_uses = num_uses /\ S.blocks = hull.blocks

\* C19: when the first loop has run over the program, no instruction
\* matches BitFieldUExtract(GetAttributeU32(PackedHullInvocationInfo), 0, 8)
\* or (.., 8, 5), and a second run of the loop changes nothing; the step on
\* such an extract makes every argument that was the extract a
\* GetAttributeU32 of PrimitiveId, respectively InvocationId.
C19_NormalizeIdempotent ==
    /\ [](AfterNormalize =>
            /\ \A I \in 1..Len(op) :
                  ~IsExtract(I, P_PatchIdExtract) /\ ~IsExtract(I, P_InvocationIdExtract)
            /\ SameProgram(NormalizeFrom(PassState, FirstFrom(PassState, 1))))
    /\ [][status = "ok" /\ hull.phase = "normalize" /\ status' = "ok" =>
            \A u \in 1..Len(op) : \A i \in 1..NumArgsOf(op[u]) :
                args[u][i] = Ref(hull.cur) =>
                    /\ IsExtract(hull.cur, P_PatchIdExtract) =>
                          ReadsAttribute(op', args', args'[u][i], PrimitiveId)
                    /\ ~IsExtract(hull.cur, P_PatchIdExtract)
                          /\ IsExtract(hull.cur, P_InvocationIdExtract) =>
                          ReadsAttribute(op', args', args'[u][i], InvocationId)]_vars

C19_Witness ==
    /\ AfterNormalize /\ hull.prog.kind = "I" /\ hull.prog.n = 2
    /\ \E u \in 1..Len(op) : op[u] = "Identity"
          /\ ReadsAttribute(op, args, args[u][1], InvocationId)
    /\ Len(SelectSeq(hull.blocks[NumBlocks], LAMBDA j : op[j] = "Void")) = 2

\* The user data register the handle of ReadConstBuffer J is built from.
HandleReg(J) == args[args[args[J][1].payload][1].payload][1].payload
\* The registers of the tess constant reads in the address of access I.
ReadRegs(I) ==
    {HandleReg(J) : J \in {K \in 1..Len(op) :
        op[K] = "ReadConstBuffer" /\ Holds(args[I][1], Ref(K))}}

\* C20: over the calls of WalkRingAccess of one pass, the tess constants
\* are read and published at most once, at the first read of the tess
\* constant buffer met; a later call that meets a read through the same
\* user data register derives nothing again, and one that meets a read
\* through another register aborts.
C20_TessConstantsOnce ==
    /\ [](hull.phase = "walk" =>
            /\ hull.tess_reads <= 1
            /\ hull.tess_constants_initialized <=> hull.tess_reads = 1)
    /\ [][hull.phase = "walk" /\ hull'.walks = hull.walks + 1 /\ hull.prog.kind = "T" =>
            LET regs == ReadRegs(hull'.access)
            IN  IF hull.tess_constants_initialized
                THEN /\ hull'.tess_reads = hull.tess_reads
                     /\ hull'.tess_constants_ud_reg = hull.tess_constants_ud_reg
                     /\ hull'.tess_constants_initialized
                     /\ (\E r \in regs : r # hull.tess_constants_ud_reg) =>
                           status' = "abort"
                     /\ regs \subseteq {hull.tess_constants_ud_reg} =>
                           status' = "ok"
                ELSE regs # {} =>
                        /\ status' = "ok"
                        /\ hull'.tess_reads = 1
                        /\ hull'.tess_constants_ud_reg \in regs]_vars

C20_Witness ==
    /\ hull.phase = "walk" /\ hull.prog.kind = "T" /\ hull.prog.alt
    /\ hull.prog.r = hull.prog.r2 /\ hull.prog.r = NumUdRegs
    /\ hull.walks = 2 /\ status = "ok"
    /\ hull.tess_reads = 1 /\ hull.tess_constants_ud_reg = NumUdRegs
    /\ ReadRegs(hull.access) = {NumUdRegs}

WriteDwords == IF op[hull.cur] = "WriteSharedU32" THEN 1 ELSE 2
\* Dword k of the data of the write.
WriteLane(k) ==
    IF WriteDwords = 1 THEN args[hull.cur][2]
    ELSE Arg(PassState, TryInstRecursive(PassState, args[hull.cur][2]), k)
\* The output writes emitted into block b since there were `before`
\* instructions, in the order of the block.
OutputsIn(blocks, ops, b, before) ==
    SelectSeq(blocks[b], LAMBDA j : j > before /\ ops[j] \in {"SetAttribute", "SetPatch"})
\* v is a BitCastF32U32 of lane emitted by the step.
BitCastOf(ops, as, before, v, lane) ==
    /\ v.type = "Opaque" /\ v.payload > before
    /\ ops[v.payload] = "BitCastF32U32"
    /\ as[v.payload][1] = lane

\* C21: the step of the second loop on a WriteSharedU32 / WriteSharedU64
\* whose address is classified with byte offset b, with offset_dw = b >> 2,
\* invalidates the write and emits one output write per dword k of the
\* data: in the output control point region SetAttribute(Param0 +
\* ((offset_dw + k) >> 2), dword k, (offset_dw + k) & 3), in the per-patch
\* constant region SetPatch(PatchGeneric(offset_dw + k), dword k).
C21_WriteSharedReplaced ==
    [][AtWrite /\ status' = "ok" /\ hull'.address_info.region \in {OutputCP, PatchConst} =>
        LET w == OutputsIn(hull'.blocks, op', hull.cb, Len(op))
            offset_dw == hull'.address_info.attribute_byte_offset \div 4
        IN  /\ op'[hull.cur] = "Void"
            /\ Len(w) = WriteDwords
            /\ \A k \in 0..WriteDwords - 1 :
                  IF hull'.address_info.region = OutputCP
                  THEN /\ op'[w[k + 1]] = "SetAttribute"
                       /\ args'[w[k + 1]][1] = Attr(Param0 + ((offset_dw + k) \div 4))
                       /\ BitCastOf(op', args', Len(op), args'[w[k + 1]][2], WriteLane(k))
                       /\ args'[w[k + 1]][3] = Imm((offset_dw + k) % 4)
                  ELSE /\ op'[w[k + 1]] = "SetPatch"
                       /\ args'[w[k + 1]][1] = PatchVal(PatchGeneric(offset_dw + k))
                       /\ BitCastOf(op', args', Len(op), args'[w[k + 1]][2], WriteLane(k))]_vars

C21_Witness ==
    /\ status = "ok" /\ hull.prog.kind = "B" /\ hull.prog.n = 3 /\ ~hull.passthrough
    /\ hull.phase = "scan" /\ hull.address_info.region = OutputCP
    /\ \E i, j \in 1..Len(op) :
          /\ op[i] = "SetAttribute" /\ args[i][1] = Attr(Param0) /\ args[i][3] = Imm(0)
          /\ op[j] = "SetAttribute" /\ args[j][1] = Attr(Param0) /\ args[j][3] = Imm(1)

\* ------------------------------------------- descriptor bindings of a pipeline
\* The stages of a graphics pipeline, each a null pointer or the Info of a
\* compiled shader: whether it reads the flattened user data, and its buffer,
\* texture buffer, image and sampler descriptors.
NumStages == 2
MaxDescs == 1

NoStage == [null |-> TRUE]

BufferResources == {[is_storage |-> s] : s \in BOOLEAN}
TextureBufferResources ==
    {[is_written |-> w, nfmt |-> "Float"] : w \in BOOLEAN}
        \cup {[is_written |-> FALSE, nfmt |-> "Invalid"]}
ImageResources ==
    {[is_storage |-> s, nfmt |-> "Uint", type |-> "Color2D"] : s \in BOOLEAN}
        \cup {[is_storage |-> FALSE, nfmt |-> "Uint", type |-> "Invalid"]}

UpTo(D) == UNION {[1..n -> D] : n \in 0..MaxDescs}

Infos ==
    [null : {FALSE}, has_readconst : BOOLEAN, buffers : UpTo(BufferResources),
     texture_buffers : UpTo(TextureBufferResources), images : UpTo(ImageResources),
     samplers : UpTo({"sampler"})]

StageSets == [1..NumStages -> Infos \cup {NoStage}]

\* BufferResource::IsStorage(sharp), called by the emission context and by
\* the pipeline with the sharp of the same Info.
IsStorage(desc) == desc.is_storage

\* The emission state: the two counters of Bindings, the variables declared
\* with a Binding decoration, and how the emission failed.
NewBindings == [unified |-> 0, buffer |-> 0]

Emitting(E) == E.fault = "none"

\* AddGlobalVariable and Decorate(id, Binding, slot): one more interface.
Declare(E, slot, stage, name, storage_class, type, dim, sampled) ==
    [E EXCEPT !.decls = Append(@, [binding |-> slot, stage |-> stage, name |-> name,
                                   storage_class |-> storage_class, type |-> type,
                                   dim |-> dim, sampled |-> sampled])]

UnifiedNext(E) == [E EXCEPT !.binding.unified = @ + 1]
BufferNext(E) == [E EXCEPT !.binding.buffer = @ + 1]

RECURSIVE BuffersLoop(_, _, _, _)
BuffersLoop(E, info, stage, i) ==
    IF i > Len(info.buffers) THEN E
    ELSE LET is_storage == IsStorage(info.buffers[i])
         IN  BuffersLoop(
                 BufferNext(UnifiedNext(
                     Declare(E, E.binding.unified, stage,
                             IF is_storage THEN "ssbo" ELSE "cbuf",
                             IF is_storage THEN "StorageBuffer" ELSE "Uniform",
                             "Struct", "none", 0))),
                 info, stage, i + 1)

DefineBuffers(E, info, stage) ==
    BuffersLoop(IF info.has_readconst
                THEN BufferNext(UnifiedNext(
                         Declare(E, E.binding.unified, stage, "srt_flatbuf_ubo",
                                 "Uniform", "Struct", "none", 0)))
                ELSE E,
                info, stage, 1)

\* GetAttributeType has no case for the number format.
InvalidAttributeType(nfmt) == nfmt = "Invalid"

RECURSIVE DefineTextureBuffers_BufferCounter(_, _, _, _)
DefineTextureBuffers_BufferCounter(E, info, stage, i) ==
    IF i > Len(info.texture_buffers) \/ ~Emitting(E) THEN E
    ELSE LET desc == info.texture_buffers[i]
         IN  IF InvalidAttributeType(desc.nfmt) THEN [E EXCEPT !.fault = "abort"]
             ELSE DefineTextureBuffers_BufferCounter(
                      BufferNext(UnifiedNext(
                          Declare(E, E.binding.buffer, stage,
                                  IF desc.is_written THEN "imgbuf" ELSE "texbuf",
                                  "UniformConstant", "Image", "Buffer",
                                  IF desc.is_written THEN 2 ELSE 1))),
                      info, stage, i + 1)

RECURSIVE DefineTextureBuffers(_, _, _, _)
DefineTextureBuffers(E, info, stage, i) ==
    IF i > Len(info.texture_buffers) \/ ~Emitting(E) THEN E
    ELSE LET desc == info.texture_buffers[i]
         IN  IF InvalidAttributeType(desc.nfmt) THEN [E EXCEPT !.fault = "abort"]
             ELSE DefineTextureBuffers(
                      BufferNext(UnifiedNext(
                          Declare(E, E.binding.unified, stage,
                                  IF desc.is_written THEN "imgbuf" ELSE "texbuf",
                                  "UniformConstant", "Image", "Buffer",
                                  IF desc.is_written THEN 2 ELSE 1))),
                      info, stage, i + 1)

\* ImageType: the dimension of the image, none for a type it has no case for.
ImageDim(type) == IF type = "Color2D" THEN "Dim2D" ELSE "none"

RECURSIVE ImagesLoop(_, _, _, _)
ImagesLoop(E, info, stage, i) ==
    IF i > Len(info.images) \/ ~Emitting(E) THEN E
    ELSE LET image_desc == info.images[i]
         IN  IF InvalidAttributeType(image_desc.nfmt) THEN [E EXCEPT !.fault = "abort"]
             ELSE IF ImageDim(image_desc.type) = "none" THEN [E EXCEPT !.fault = "threw"]
             ELSE ImagesLoop(
                      UnifiedNext(
                          Declare(E, E.binding.unified, stage, "img", "UniformConstant",
                                  "Image", ImageDim(image_desc.type),
                                  IF image_desc.is_storage THEN 2 ELSE 1)),
                      info, stage, i + 1)

RECURSIVE SamplersLoop(_, _, _, _)
SamplersLoop(E, info, stage, i) ==
    IF i > Len(info.samplers) \/ ~Emitting(E) THEN E
    ELSE SamplersLoop(
             UnifiedNext(Declare(E, E.binding.unified, stage, "samp", "UniformConstant",
                                 "Sampler", "none", 0)),
             info, stage, i + 1)

DefineImagesAndSamplers(E, info, stage) ==
    SamplersLoop(ImagesLoop(E, info, stage, 1), info, stage, 1)

\* GraphicsPipeline::BuildDescSetLayout: the bindings of the layout.
LayoutBinding(b, type) == [binding |-> b, descriptorType |-> type]

RECURSIVE LayoutBuffers(_, _, _)
LayoutBuffers(bindings, stage, i) ==
    IF i > Len(stage.buffers) THEN bindings
    ELSE LayoutBuffers(
             Append(bindings,
                    LayoutBinding(Len(bindings),
                                  IF IsStorage(stage.buffers[i]) THEN "eStorageBuffer"
                                  ELSE "eUniformBuffer")),
             stage, i + 1)

RECURSIVE LayoutTextureBuffers(_, _, _)
LayoutTextureBuffers(bindings, stage, i) ==
    IF i > Len(stage.texture_buffers) THEN bindings
    ELSE LayoutTextureBuffers(
             Append(bindings,
                    LayoutBinding(Len(bindings),
                                  IF stage.texture_buffers[i].is_written
                                  THEN "eStorageTexelBuffer" ELSE "eUniformTexelBuffer")),
             stage, i + 1)

RECURSIVE LayoutImages(_, _, _)
LayoutImages(bindings, stage, i) ==
    IF i > Len(stage.images) THEN bindings
    ELSE LayoutImages(
             Append(bindings,
                    LayoutBinding(Len(bindings),
                                  IF stage.images[i].is_storage THEN "eStorageImage"
                                  ELSE "eSampledImage")),
             stage, i + 1)

RECURSIVE LayoutSamplers(_, _, _)
LayoutSamplers(bindings, stage, i) ==
    IF i > Len(stage.samplers) THEN bindings
    ELSE LayoutSamplers(Append(bindings, LayoutBinding(Len(bindings), "eSampler")),
                        stage, i + 1)

RECURSIVE BuildDescSetLayout(_, _, _)
BuildDescSetLayout(bindings, stages, s) ==
    IF s > Len(stages) THEN bindings
    ELSE IF stages[s].null THEN BuildDescSetLayout(bindings, stages, s + 1)
    ELSE BuildDescSetLayout(
             LayoutSamplers(
                 LayoutImages(
                     LayoutTextureBuffers(
                         LayoutBuffers(
                             IF stages[s].has_readconst
                             THEN Append(bindings,
                                         LayoutBinding(Len(bindings), "eUniformBuffer"))
                             ELSE bindings,
                             stages[s], 1),
                         stages[s], 1),
                     stages[s], 1),
                 stages[s], 1),
             stages, s + 1)

\* The stage that is compiled after stage s: null stages have no shader.
RECURSIVE NextStage(_, _)
NextStage(stages, s) ==
    IF s + 1 > Len(stages) THEN s + 1
    ELSE IF stages[s + 1].null THEN NextStage(stages, s + 1) ELSE s + 1

\* ------------------------------------------------------------ the pipeline
\* One Bindings object serves the emission contexts of all stages of the
\* pipeline; each context runs DefineBuffers, DefineTextureBuffers and
\* DefineImagesAndSamplers in its constructor.
Emission == [binding |-> pipeline.binding, decls |-> pipeline.decls,
             fault |-> pipeline.fault]

PipelineCommit(E, phase, stage) ==
    /\ pipeline' = [pipeline EXCEPT !.binding = E.binding, !.decls = E.decls,
                                    !.fault = E.fault,
                                    !.phase = IF E.fault # "none" THEN "failed"
                                              ELSE IF stage > NumStages THEN "compiled"
                                              ELSE phase,
                                    !.stage = stage]
    /\ UNCHANGED <<op, args, phi_args, users, num_uses, status, debug, last, calls, hull>>

BindInit ==
    \E stages \in StageSets :
        /\ op = <<>>
        /\ args = <<>>
        /\ phi_args = <<>>
        /\ users = <<>>
        /\ num_uses = <<>>
        /\ status = "ok"
        /\ debug = FALSE
        /\ last = NoCall
        /\ calls = 0
        /\ hull = NoHull
        /\ pipeline = [phase |-> IF NextStage(stages, 0) > NumStages THEN "compiled"
                                 ELSE "DefineBuffers",
                       stages |-> stages, stage |-> NextStage(stages, 0),
                       binding |-> NewBindings, decls |-> <<>>, fault |-> "none",
                       bindings |-> <<>>]

DoDefineBuffers ==
    /\ pipeline.phase = "DefineBuffers"
    /\ PipelineCommit(DefineBuffers(Emission, pipeline.stages[pipeline.stage],
                                    pipeline.stage),
                      "DefineTextureBuffers", pipeline.stage)

DoDefineTextureBuffers ==
    /\ pipeline.phase = "DefineTextureBuffers"
    /\ PipelineCommit(DefineTextureBuffers(Emission, pipeline.stages[pipeline.stage],
                                           pipeline.stage, 1),
                      "DefineImagesAndSamplers", pipeline.stage)

DoDefineImagesAndSamplers ==
    /\ pipeline.phase = "DefineImagesAndSamplers"
    /\ LET E == DefineImagesAndSamplers(Emission, pipeline.stages[pipeline.stage],
                                        pipeline.stage)
       IN  PipelineCommit(E, "DefineBuffers",
                          IF Emitting(E) THEN NextStage(pipeline.stages, pipeline.stage)
                          ELSE pipeline.stage)

DoBuildDescSetLayout ==
    /\ pipeline.phase = "compiled"
    /\ pipeline' = [pipeline EXCEPT !.phase = "built",
                                    !.bindings = BuildDescSetLayout(<<>>, pipeline.stages, 1)]
    /\ UNCHANGED <<op, args, phi_args, users, num_uses, status, debug, last, calls, hull>>

BindNext ==
    DoDefineBuffers \/ DoDefineTextureBuffers \/ DoDefineImagesAndSamplers
        \/ DoBuildDescSetLayout
BindSpec == BindInit /\ [][BindNext]_vars

\* The Vulkan descriptor type a declared variable is bound as.
DescriptorTypeOf(decl) ==
    CASE decl.type = "Struct" ->
            IF decl.storage_class = "StorageBuffer" THEN "eStorageBuffer"
            ELSE "eUniformBuffer"
      [] decl.type = "Image" /\ decl.dim = "Buffer" ->
            IF decl.sampled = 2 THEN "eStorageTexelBuffer" ELSE "eUniformTexelBuffer"
      [] decl.type = "Image" /\ decl.dim # "Buffer" ->
            IF decl.sampled = 2 THEN "eStorageImage" ELSE "eSampledImage"
      [] OTHER -> "eSampler"

\* Position of a declaration in the order of one stage.
ClassRank(decl) ==
    CASE decl.name = "srt_flatbuf_ubo" -> 0
      [] decl.name \in {"cbuf", "ssbo"} -> 1
      [] decl.name \in {"texbuf", "imgbuf"} -> 2
      [] decl.name = "img" -> 3
      [] OTHER -> 4

DeclsOf(s, rank) ==
    Cardinality({k \in 1..Len(pipeline.decls) :
                    pipeline.decls[k].stage = s /\ ClassRank(pipeline.decls[k]) = rank})

StageDeclared(s) ==
    LET info == pipeline.stages[s]
    IN  /\ DeclsOf(s, 0) = (IF info.has_readconst THEN 1 ELSE 0)
        /\ DeclsOf(s, 1) = Len(info.buffers)
        /\ DeclsOf(s, 2) = Len(info.texture_buffers)
        /\ DeclsOf(s, 3) = Len(info.images)
        /\ DeclsOf(s, 4) = Len(info.samplers)

\* C22: the emission contexts of a pipeline give the slots 0, 1, 2, ... in
\* order of declaration: within a stage the flattened user data, then the
\* buffers, the texture buffers, the images, the samplers, the counter going
\* on from stage to stage; and the slots and descriptor kinds declared are
\* those of the layout BuildDescSetLayout builds from the same Infos, entry
\* by entry (during the emission: a prefix of them).
C22_BindingsMatchLayout ==
    pipeline.phase # "none" =>
        LET decls == pipeline.decls
            layout == IF pipeline.phase = "built" THEN pipeline.bindings
                      ELSE BuildDescSetLayout(<<>>, pipeline.stages, 1)
        IN  /\ \A k \in 1..Len(decls) : decls[k].binding = k - 1
            /\ \A k, j \in 1..Len(decls) :
                  k < j => \/ decls[k].stage < decls[j].stage
                           \/ /\ decls[k].stage = decls[j].stage
                              /\ ClassRank(decls[k]) <= ClassRank(decls[j])
            /\ Len(decls) <= Len(layout)
            /\ \A k \in 1..Len(decls) :
                  /\ layout[k].binding = decls[k].binding
                  /\ layout[k].descriptorType = DescriptorTypeOf(decls[k])
            /\ pipeline.phase \in {"compiled", "built"} =>
                  /\ Len(decls) = Len(layout)
                  /\ \A s \in 1..NumStages :
                        IF pipeline.stages[s].null THEN \A r \in 0..4 : DeclsOf(s, r) = 0
                        ELSE StageDeclared(s)

\* Both stages compiled and the layout built: the first stage has declared an
\* image, so the two counters differ when the second declares a texture buffer.
C22_Witness ==
    /\ pipeline.phase = "built"
    /\ Len(pipeline.decls) >= 4
    /\ \E k, j \in 1..Len(pipeline.decls) :
          /\ pipeline.decls[k].stage = 1 /\ pipeline.decls[k].name = "img"
          /\ pipeline.decls[j].stage = 2 /\ pipeline.decls[j].name = "imgbuf"
          /\ pipeline.decls[j].binding # pipeline.binding.buffer - 1

\* The addends of v, left to right: v itself unless it is a sum.
RECURSIVE Addends(_)
Addends(v) ==
    LET r == Resolve(PassState, v)
    IN  IF r.type = "Opaque" /\ op[r.payload] = "IAdd32"
        THEN Addends(args[r.payload][1]) \o Addends(args[r.payload][2])
        ELSE <<v>>
\* The address of the access last walked.
WalkedAddress == args[hull.access][1]

\* C23: after WalkRingAccess on an address in which no addition is inside
\* a multiplication, terms has one entry per addend of the address, in
\* order, linear_products has the same length, and the non-immediate
\* factors of linear_products[i] are all held by terms[i].
C23_TermPerAddend ==
    (Walked("A") \/ Walked("X")) /\ hull.prog.n # 6 /\ status = "ok" =>
        /\ hull.terms = Addends(WalkedAddress)
        /\ Len(hull.linear_products) = Len(hull.terms)
        /\ \A i \in 1..Len(hull.linear_products) :
              \A k \in 1..Len(hull.linear_products[i]) :
                  hull.linear_products[i][k].type = "Opaque" =>
                      i <= Len(hull.terms) /\ Holds(hull.terms[i], hull.linear_products[i][k])

\* A factor list all of whose factors are immediates.
FullyImmediate(term) == \A k \in 1..Len(term) : IsImmediate(PassState, term[k])
\* The product of the factors of a fully immediate term from the k-th on.
RECURSIVE ProductFrom(_, _)
ProductFrom(term, k) ==
    IF k > Len(term) THEN 1
    ELSE Resolve(PassState, term[k]).payload * ProductFrom(term, k + 1)
\* The sum of the products of the fully immediate terms from the i-th on.
RECURSIVE OffsetFrom(_, _)
OffsetFrom(lp, i) ==
    IF i > Len(lp) THEN 0
    ELSE (IF FullyImmediate(lp[i]) THEN ProductFrom(lp[i], 1) ELSE 0)
         + OffsetFrom(lp, i + 1)

\* C24: the byte offset WalkRingAccess returns is the sum, over the terms
\* all of whose factors are immediates, of the product of the factors of
\* the term; a term with a non-immediate factor adds nothing.
C24_OffsetIsSumOfProducts ==
    hull.phase = "walk" /\ hull.walks > 0 /\ status = "ok" =>
        Info.attribute_byte_offset = OffsetFrom(hull.linear_products, 1)

\* C25: a term with the number of patches as a factor adds one to the
\* region counter, one with the patch constant base adds two, and the term
\* is dropped: for an address that is this one term, WalkRingAccess returns
\* the region of the counter, a byte offset of 0 and no control point index.
C25_RegionTermDropped ==
    Walked("N") =>
        /\ status = "ok"
        /\ Info.attribute_byte_offset = 0
        /\ Info.control_point_index = Empty
        /\ ~hull.prog.alt =>
              Info.region = (IF hull.passthrough THEN PatchConst ELSE OutputCP)
        /\ hull.prog.alt /\ ~hull.passthrough => Info.region = PatchConst

\* The region counter of the last call of FindIndexInfo, from the factor
\* lists it worked on.
RegionCount == FilterBegin(PassState, 1, 0).count

C27_OneIndexTerm ==
    /\ Walked("M") => status = "abort"
    /\ Walked("X") /\ hull.prog.alt /\ hull.prog.n \in {2, 3, 4, 5, 7} /\ status = "ok" =>
          /\ \E i \in 1..Len(Addends(WalkedAddress)) :
                Info.control_point_index = Addends(WalkedAddress)[i]
          /\ Holds(Info.control_point_index, hull.slots[1])

\* 2^n modulo 2^32, as a 32-bit value.
Pow2U32(n) == IF n = 31 THEN (-I32Max) - 1 ELSE 2 ^ n

\* C28: for an address a << n with an immediate n in 0..31, WalkRingAccess
\* returns, and the term of the address has the immediate factor 2^n
\* modulo 2^32 (1 for n = 0) followed by the factors of a.
C28_ShiftFactor ==
    Walked("H") =>
        /\ status = "ok"
        /\ hull.linear_products = <<<<Imm(Pow2U32(hull.prog.n)), hull.slots[1]>>>>

\* The number of set bits of a mask.
RECURSIVE PopCountFrom(_, _)
PopCountFrom(m, i) ==
    IF i >= OperandLimit THEN 0
    ELSE (IF HasBit(m, i) THEN 1 ELSE 0) + PopCountFrom(m, i + 1)
RECURSIVE MaskBits(_, _)
MaskBits(list, k) ==
    IF k > Len(list) THEN 0
    ELSE PopCountFrom(list[k].operand_mask, 0) + MaskBits(list, k + 1)

\* C29: in every state the Inst methods reach, UseCount() of an instruction
\* is the number of set bits over the masks of its user list, the list has
\* at most one node per user, and no node has an empty mask.
C29_UseCountIsPopCount ==
    status = "ok" /\ hull = NoHull =>
        \A P \in Insts :
            /\ num_uses[P] = MaskBits(users[P], 1)
            /\ \A k, j \in 1..Len(users[P]) :
                  users[P][k].user = users[P][j].user => k = j
            /\ \A k \in 1..Len(users[P]) : users[P][k].operand_mask # 0

\* Following Arg(0) from v through Identity instructions comes to target.
RECURSIVE ChainHits(_, _, _)
ChainHits(v, target, fuel) ==
    /\ v.type = "Opaque" /\ op[v.payload] = "Identity"
    /\ \/ v.payload = target
       \/ fuel > 0 /\ ChainHits(args[v.payload][1], target, fuel - 1)

\* C30: in every state the Inst methods reach, no Identity instruction
\* comes back to itself by following Arg(0).
C30_IdentityAcyclic ==
    status = "ok" /\ hull = NoHull =>
        \A I \in Insts : op[I] = "Identity" => ~ChainHits(args[I][1], I, NumInsts)
====
